---------------------------- MODULE Spec2Model ----------------------------
(***************************************************************************)
(* A model of the symbol dependency engine of IDEAS (src/ideas):           *)
(*   - get_all_deps          (utils.py)  transitive closure of a name      *)
(*   - merge_symbols         (init.py)   multi-unit symbol table merge     *)
(*   - reachable_subgraph    (init.py)   export-driven subsetting          *)
(*   - init's emission loop  (init.py)   topological linearization         *)
(* Each operation is a state machine of its own over the module's          *)
(* variables; a specification runs one of them and leaves the variables    *)
(* of the others at their idle values.                                     *)
(***************************************************************************)
EXTENDS Integers, Sequences, FiniteSets, TLC

(***************************************************************************)
(* Bounds of the model.                                                    *)
(***************************************************************************)
\* Symbol names that occur in graphs.
Names == {"A", "B", "C"}

\* The largest number of edges (list entries) of an input graph.
MaxEdges == 3

\* Python's recursion limit (sys.getrecursionlimit(), 1000), scaled down:
\* a call that would make the stack deeper raises RecursionError.
RecursionLimit == 5

\* math.inf, the default of max_depth (a value no depth equals).
Inf == -1

\* The depth limits a caller passes as max_depth.
DepthChoices == {Inf, 0, 1}

\* The reference of no dict: cache=None.
None == 0

(***************************************************************************)
(* Python values.                                                          *)
(*   list  -> sequence;  set -> set;  dict -> function on its key set      *)
(*   (the empty dict is << >>, the function with empty domain).            *)
(***************************************************************************)
EmptyDict == << >>

DictSet(d, k, v) == (k :> v) @@ d

Range(s) == {s[i] : i \in 1..Len(s)}

SeqsUpTo(S, n) == UNION {[1..k -> S] : k \in 0..n}

RECURSIVE SumLen(_, _)
SumLen(g, keys) ==
    IF keys = {} THEN 0
    ELSE LET k == CHOOSE x \in keys : TRUE
         IN  Len(g[k]) + SumLen(g, keys \ {k})

\* dict[str, list[str]]: every graph over Names with at most MaxEdges edges.
\* A name may be no key of the graph, and a list may repeat a neighbor.
Graphs ==
    UNION {{g \in [K -> SeqsUpTo(Names, MaxEdges)] : SumLen(g, K) <= MaxEdges}
           : K \in SUBSET Names}

\* The neighbors of n in g (none when n is no key).
Succ(g, n) == IF n \in DOMAIN g THEN Range(g[n]) ELSE {}

\* The names reachable from the names of S along one or more edges.
RECURSIVE ReachFrom(_, _, _)
ReachFrom(g, frontier, seen) ==
    LET next == UNION {Succ(g, n) : n \in frontier}
    IN  IF next \subseteq seen THEN seen
        ELSE ReachFrom(g, next \ seen, seen \cup next)

Reach(g, n) == ReachFrom(g, {n}, {})

Acyclic(g) == \A n \in DOMAIN g : n \notin Reach(g, n)

VARIABLES
    \* ---- get_all_deps (utils.py) ----
    current_graph,   \* the graph argument
    gad_name,        \* the name argument of the outermost call
    cutoffs,         \* the cutoffs argument (a set; None is the empty set)
    max_depth,       \* the max_depth argument
    caches,          \* the heap of cache dicts: caches[r] is the dict with reference r
    visited,         \* the _visited set the recursive calls share
    gad_stack,       \* the call stack: one frame per active call
    gad_result,      \* the outermost call's return value (set when gad_pc = "done")
    gad_pc,          \* "idle" | "start" | "run" | "done" | "RecursionError"
    \* ---- merge_symbols (init.py) ----
    list_of_symbols, \* the tables to merge, in processing order
    source_priority, \* the priority list (None is the empty list, init.py:226)
    global_symbols,  \* the merged table built so far
    ms_t,            \* index of the table the outer loop is at
    ms_todo,         \* names of that table the inner loop has not handled yet
    ms_error,        \* << >>, or <<message>> of the NotImplementedError raised
    ms_result,       \* << >>, or <<table>> once merge_symbols has returned
    ms_pc,           \* "idle" | "run" | "done" | "error"
    \* ---- reachable_subgraph and init's emission loop (init.py) ----
    dependencies,    \* the dependency graph, dict[str, list[str]]
    rs_names,        \* the names argument of the outermost call
    rs_stack,        \* the call stack of reachable_subgraph
    rs_result,       \* << >>, or <<subgraph>> once the outermost call returned
    rs_pc,           \* "idle" | "start" | "run" | "done" | "KeyError" | "RecursionError"
    dep_keys,        \* the key order of the dependencies dict
    symbols,         \* the names of the retained symbol table
    node2info,       \* TopologicalSorter._node2info: node -> npredecessors, successors
    n2i_keys,        \* the key order of _node2info
    ready_nodes,     \* TopologicalSorter._ready_nodes
    npassedout,      \* TopologicalSorter._npassedout
    nfinished,       \* TopologicalSorter._nfinished
    node_group,      \* the tuple static_order is yielding from
    group_i,         \* the position in node_group of the next name to yield
    sources,         \* the emitted symbol texts, each named by its symbol
    warnings,        \* the names logged as skipped
    emit_pc          \* "idle" | "start" | "prepare" | "active" | "yield" | "done" | "CycleError"

VARIABLES
    \* ---- c14n_symbol_name (init.py) ----
    c14n_name,       \* the name argument (an export name)
    c14n_symbols,    \* the symbols argument: key -> Symbol (name, cursor.spelling)
    c14n_result,     \* << >>, or <<name>> once the call has returned
    c14n_pc,         \* "idle" | "start" | "done" | "ValueError"
    \* ---- a caller of get_all_deps that keeps one cache (ast.py) ----
    gad_round,       \* 0, or the number of the caller's current call (1, 2)
    gad_first,       \* << >>, or <<list>> the caller's first call returned
    \* ---- get_asts with add_prefix_to_internally_linked_cursors (init.py) ----
    pf_units,        \* the translation units of the compilation database, in order
    pf_disk,         \* pf_disk[k]: the contents on disk of the source file of unit k
    pf_asts,         \* the ASTs of the units handled so far (tu after its reparse)
    pf_u,            \* the number of the unit the loop of get_asts is at
    pf_renames,      \* the entries of renames that clang_rename_ has not done yet
    pf_r,            \* the number of renames clang_rename_ has done for this unit
    source_bytes,    \* << >>, or <<contents>> saved by source.read_bytes()
    pf_raised,       \* "", or the exception that is propagating
    pf_pc,           \* "idle" | "loop" | "rename" | "finally" | "done" | "error"
    \* ---- extract_info_c (ast.py) ----
    hv_nodes,        \* tu.cursor.get_children(): the top-level nodes, in source order
    hv_i,            \* the number of nodes the loop has handled
    hv_symbols,      \* result.symbols
    fn_definitions,  \* result.fn_definitions
    complete_graph,  \* result.complete_graph
    previous_name,   \* previous_name
    hv_pc,           \* "idle" | "loop" | "done" | "AssertionError"
    \* ---- get_code_from_tu_range (ast.py) ----
    tu_files,        \* the contents of the files of the translation unit
    source_range,    \* the source_range argument: start and end (file, offset)
    tr_result,       \* << >>, or <<text>> once the call has returned
    tr_pc,           \* "idle" | "start" | "done" | "AssertionError"
    \* ---- merge_complete_graphs (init.py) ----
    mcg_asts,        \* the complete_graph of every ast, by name
    valid_names,     \* the valid_names argument
    mcg_graph,       \* graph
    mcg_a,           \* the number of the ast the outer loop is at
    mcg_todo,        \* the keys of that ast the inner loop has not handled yet
    mcg_pc           \* "idle" | "run" | "done"

VARIABLES
    \* ---- filter_symbols (init.py) ----
    fs_symbols,      \* the symbols argument: its items (name, symbol), in dict order
    fs_flags,        \* the four filter_* arguments
    filtered_symbols, \* filtered_symbols: its items, in dict order
    fs_i,            \* the number of items the loop has handled
    fs_pc,           \* "idle" | "loop" | "done"
    \* ---- init up to get_asts (init.py) ----
    cmds,            \* the source files of the compile commands, in order
    init_priority,   \* << >> for source_priority None, or <<the list of paths>>
    prefix_internally_linked, \* the argument init passes to get_asts
    init_asts,       \* asts: the file of each harvested unit and whether it was prefixed
    init_k,          \* the number of compile commands the loop has handled
    init_pc          \* "idle" | "start" | "loop" | "done"

gadVars == <<current_graph, gad_name, cutoffs, max_depth, caches, visited,
             gad_stack, gad_result, gad_pc>>

msVars == <<list_of_symbols, source_priority, global_symbols, ms_t, ms_todo,
            ms_error, ms_result, ms_pc>>

rsVars == <<rs_names, rs_stack, rs_result, rs_pc>>

emitVars == <<dep_keys, symbols, node2info, n2i_keys, ready_nodes, npassedout,
              nfinished, node_group, group_i, sources, warnings, emit_pc>>

c14nVars == <<c14n_name, c14n_symbols, c14n_result, c14n_pc>>

callerVars == <<gad_round, gad_first>>

\* The variables of the operations modelled after the four above.
prefixVars == <<pf_units, pf_disk, pf_asts, pf_u, pf_renames, pf_r, source_bytes,
                pf_raised, pf_pc>>

harvestVars == <<hv_nodes, hv_i, hv_symbols, fn_definitions, complete_graph,
                 previous_name, hv_pc>>

rangeVars == <<tu_files, source_range, tr_result, tr_pc>>

mcgVars == <<mcg_asts, valid_names, mcg_graph, mcg_a, mcg_todo, mcg_pc>>

filterVars == <<fs_symbols, fs_flags, filtered_symbols, fs_i, fs_pc>>

initVars == <<cmds, init_priority, prefix_internally_linked, init_asts, init_k,
              init_pc>>

extVars == <<c14nVars, callerVars, prefixVars, harvestVars, rangeVars, mcgVars,
             filterVars, initVars>>

vars == <<gadVars, msVars, dependencies, rsVars, emitVars, extVars>>

\* The values of an operation's variables while another operation runs.
GadIdle ==
    /\ current_graph = EmptyDict /\ gad_name = "" /\ cutoffs = {}
    /\ max_depth = Inf /\ caches = << >> /\ visited = {}
    /\ gad_stack = << >> /\ gad_result = << >> /\ gad_pc = "idle"

MsIdle ==
    /\ list_of_symbols = << >> /\ source_priority = << >>
    /\ global_symbols = EmptyDict /\ ms_t = 0 /\ ms_todo = {}
    /\ ms_error = << >> /\ ms_result = << >> /\ ms_pc = "idle"

RsIdle ==
    /\ rs_names = << >> /\ rs_stack = << >> /\ rs_result = << >>
    /\ rs_pc = "idle"

EmitIdle ==
    /\ dep_keys = << >> /\ symbols = {} /\ node2info = EmptyDict
    /\ n2i_keys = << >> /\ ready_nodes = << >> /\ npassedout = 0
    /\ nfinished = 0 /\ node_group = << >> /\ group_i = 0
    /\ sources = << >> /\ warnings = << >> /\ emit_pc = "idle"

C14nIdle ==
    /\ c14n_name = "" /\ c14n_symbols = EmptyDict /\ c14n_result = << >>
    /\ c14n_pc = "idle"

CallerIdle == gad_round = 0 /\ gad_first = << >>

PrefixIdle ==
    /\ pf_units = << >> /\ pf_disk = << >> /\ pf_asts = << >> /\ pf_u = 0
    /\ pf_renames = << >> /\ pf_r = 0 /\ source_bytes = << >>
    /\ pf_raised = "" /\ pf_pc = "idle"

HarvestIdle ==
    /\ hv_nodes = << >> /\ hv_i = 0 /\ hv_symbols = EmptyDict
    /\ fn_definitions = EmptyDict /\ complete_graph = EmptyDict
    /\ previous_name = "" /\ hv_pc = "idle"

RangeIdle ==
    /\ tu_files = EmptyDict /\ source_range = << >> /\ tr_result = << >>
    /\ tr_pc = "idle"

McgIdle ==
    /\ mcg_asts = << >> /\ valid_names = {} /\ mcg_graph = EmptyDict
    /\ mcg_a = 0 /\ mcg_todo = {} /\ mcg_pc = "idle"

FilterIdle ==
    /\ fs_symbols = << >> /\ fs_flags = << >> /\ filtered_symbols = << >>
    /\ fs_i = 0 /\ fs_pc = "idle"

InitIdle ==
    /\ cmds = << >> /\ init_priority = << >> /\ prefix_internally_linked = FALSE
    /\ init_asts = << >> /\ init_k = 0 /\ init_pc = "idle"

ExtIdle ==
    /\ C14nIdle /\ CallerIdle /\ PrefixIdle /\ HarvestIdle /\ RangeIdle /\ McgIdle
    /\ FilterIdle /\ InitIdle

BaseIdle == GadIdle /\ MsIdle /\ dependencies = EmptyDict /\ RsIdle /\ EmitIdle

baseVars == <<gadVars, msVars, dependencies, rsVars, emitVars>>

(***************************************************************************)
(* get_all_deps, utils.py:37-100.                                          *)
(* A frame holds the locals of one call: name, current_deps, the loop      *)
(* index i of `for dep_symbol in current_deps`, expanded_deps, seen_names, *)
(* the reference of its cache dict, and _depth.                            *)
(***************************************************************************)

\* utils.py:47-48 `if not cache: cache = dict()`: None and the empty dict are
\* both falsy, so a call that is handed an empty dict allocates a new one.
CacheFor(heap, ref) ==
    IF ref = None \/ DOMAIN heap[ref] = {}
    THEN [heap |-> Append(heap, EmptyDict), ref |-> Len(heap) + 1]
    ELSE [heap |-> heap, ref |-> ref]

\* A call that ignores the depth limit (used to test DepthBoundsExpansion).
DepthExceededNever(depth, limit) == FALSE

\* utils.py:57 `_depth > max_depth`
DepthExceeded(depth, limit) == limit # Inf /\ depth > limit

\* A call that ignores the path set (used to test TerminatesDeps).
VisitedHitNever(name, vis) == FALSE

\* utils.py:57 `name in _visited`
VisitedHit(name, vis) == name \in vis

\* A loop that skips nothing (used to test NoStartNoCutoffs).
InCutoffsNever(dep, cut) == FALSE

\* utils.py:73 `dep_symbol.name in cutoffs`
InCutoffs(dep, cut) == dep \in cut

\* utils.py:46-68: the statements of a call up to its loop.  The outcome is
\* either an immediate return (kind "ret" with the returned list) or a new
\* frame (kind "push").
Prologue(name, ref, depth, heap, vis) ==
    LET c == CacheFor(heap, ref)
    IN  IF name \in DOMAIN c.heap[c.ref]
        THEN [kind |-> "ret", ret |-> c.heap[c.ref][name],
              heap |-> c.heap, vis |-> vis]
        ELSE IF VisitedHit(name, vis) \/ DepthExceeded(depth, max_depth)
        THEN [kind |-> "ret", ret |-> << >>, heap |-> c.heap, vis |-> vis]
        ELSE IF name \notin DOMAIN current_graph
        THEN [kind |-> "ret", ret |-> << >>,
              heap |-> [c.heap EXCEPT ![c.ref] = DictSet(@, name, << >>)],
              vis |-> vis]
        ELSE [kind |-> "push", heap |-> c.heap, vis |-> vis \cup {name},
              frame |-> [name |-> name, current_deps |-> current_graph[name],
                         i |-> 1, expanded_deps |-> << >>, seen_names |-> {},
                         cache |-> c.ref, depth |-> depth]]

\* utils.py:88-91: append the transitive dependencies not seen yet.
RECURSIVE AddTrans(_, _, _)
AddTrans(f, trans, k) ==
    IF k > Len(trans) THEN f
    ELSE LET t == trans[k]
         IN  IF t \notin f.seen_names /\ t # f.name
             THEN AddTrans([f EXCEPT !.expanded_deps = Append(@, t),
                                     !.seen_names = @ \cup {t}], trans, k + 1)
             ELSE AddTrans(f, trans, k + 1)

\* A loop that forgets the dependency itself (used to test ClosureIsReach).
AddDepDropped(f, dep) == f

\* A loop that puts the dependency at the front of the list (used to test
\* ResultRespectsUncutDependencies).
AddDepFront(f, dep) ==
    IF dep \notin f.seen_names /\ dep # f.name
    THEN [f EXCEPT !.expanded_deps = <<dep>> \o @, !.seen_names = @ \cup {dep}]
    ELSE f

\* utils.py:93-96: then the dependency itself.
AddDep(f, dep) ==
    IF dep \notin f.seen_names /\ dep # f.name
    THEN [f EXCEPT !.expanded_deps = Append(@, dep), !.seen_names = @ \cup {dep}]
    ELSE f

\* A loop that appends the dependency before its transitive dependencies
\* (used to test ResultInFirstOccurrenceOrder).
AbsorbDepFirst(f, trans) ==
    LET dep == f.current_deps[f.i]
        g == AddTrans(AddDep(f, dep), trans, 1)
    IN  [g EXCEPT !.i = @ + 1]

\* utils.py:87-96 and the loop's step to the next dependency.
Absorb(f, trans) ==
    LET dep == f.current_deps[f.i]
        g == AddDep(AddTrans(f, trans, 1), dep)
    IN  [g EXCEPT !.i = @ + 1]

Top(stack) == stack[Len(stack)]
Pop(stack) == SubSeq(stack, 1, Len(stack) - 1)
SetTop(stack, f) == [stack EXCEPT ![Len(stack)] = f]

GadInit ==
    /\ current_graph \in Graphs
    /\ gad_name \in Names
    /\ cutoffs \in SUBSET Names
    /\ max_depth \in DepthChoices
    /\ caches = << >>
    /\ visited = {}
    /\ gad_stack = << >>
    /\ gad_result = << >>
    /\ gad_pc = "start"
    /\ MsIdle /\ dependencies = EmptyDict /\ RsIdle /\ EmitIdle /\ ExtIdle

\* The outermost call: get_all_deps(current_graph, gad_name, cutoffs,
\* max_depth=max_depth) with cache and _visited left at None, _depth at 0.
GadEnter ==
    /\ gad_pc = "start"
    /\ LET p == Prologue(gad_name, None, 0, caches, {})
       IN  /\ caches' = p.heap
           /\ visited' = p.vis
           /\ IF p.kind = "ret"
              THEN /\ gad_result' = p.ret
                   /\ gad_stack' = gad_stack
                   /\ gad_pc' = "done"
              ELSE /\ gad_result' = gad_result
                   /\ gad_stack' = <<p.frame>>
                   /\ gad_pc' = "run"
    /\ UNCHANGED <<current_graph, gad_name, cutoffs, max_depth>>
    /\ UNCHANGED <<msVars, dependencies, rsVars, emitVars, extVars>>

\* utils.py:72-74: a dependency in cutoffs is skipped.
GadSkipCutoff ==
    /\ gad_pc = "run"
    /\ LET f == Top(gad_stack)
       IN  /\ f.i <= Len(f.current_deps)
           /\ InCutoffs(f.current_deps[f.i], cutoffs)
           /\ gad_stack' = SetTop(gad_stack, [f EXCEPT !.i = @ + 1])
    /\ UNCHANGED <<current_graph, gad_name, cutoffs, max_depth, caches, visited,
                   gad_result, gad_pc>>
    /\ UNCHANGED <<msVars, dependencies, rsVars, emitVars, extVars>>

\* utils.py:76-96: the recursive call for a dependency.  A call that returns
\* before its loop is absorbed by the caller in the same step; otherwise its
\* frame is pushed.
GadCall ==
    /\ gad_pc = "run"
    /\ LET f == Top(gad_stack)
       IN  /\ f.i <= Len(f.current_deps)
           /\ ~InCutoffs(f.current_deps[f.i], cutoffs)
           /\ IF Len(gad_stack) >= RecursionLimit
              THEN /\ gad_pc' = "RecursionError"
                   /\ UNCHANGED <<caches, visited, gad_stack>>
              ELSE LET p == Prologue(f.current_deps[f.i], f.cache, f.depth + 1,
                                     caches, visited)
                   IN  /\ caches' = p.heap
                       /\ visited' = p.vis
                       /\ gad_pc' = gad_pc
                       /\ gad_stack' = IF p.kind = "ret"
                                       THEN SetTop(gad_stack, Absorb(f, p.ret))
                                       ELSE Append(gad_stack, p.frame)
    /\ UNCHANGED <<current_graph, gad_name, cutoffs, max_depth, gad_result>>
    /\ UNCHANGED <<msVars, dependencies, rsVars, emitVars, extVars>>

\* utils.py:98-100: the loop is over; the call leaves _visited, stores its
\* list in its cache and returns it to its caller (utils.py:87-96) or, for the
\* outermost call, to the caller of get_all_deps.
GadReturn ==
    /\ gad_pc = "run"
    /\ LET f == Top(gad_stack)
       IN  /\ f.i > Len(f.current_deps)
           /\ visited' = visited \ {f.name}
           /\ caches' = [caches EXCEPT ![f.cache] = DictSet(@, f.name, f.expanded_deps)]
           /\ IF Len(gad_stack) = 1
              THEN /\ gad_result' = f.expanded_deps
                   /\ gad_stack' = << >>
                   /\ gad_pc' = "done"
              ELSE /\ gad_result' = gad_result
                   /\ gad_stack' = SetTop(Pop(gad_stack),
                                          Absorb(gad_stack[Len(gad_stack) - 1],
                                                 f.expanded_deps))
                   /\ gad_pc' = gad_pc
    /\ UNCHANGED <<current_graph, gad_name, cutoffs, max_depth>>
    /\ UNCHANGED <<msVars, dependencies, rsVars, emitVars, extVars>>

GadNext == GadEnter \/ GadSkipCutoff \/ GadCall \/ GadReturn

SpecDeps == GadInit /\ [][GadNext]_vars

\* A call that has started keeps executing: the interpreter runs the function
\* to its end.
SpecDepsFair == SpecDeps /\ WF_vars(GadNext)

(***************************************************************************)
(* Claims about get_all_deps.                                              *)
(***************************************************************************)

\* C2: with no cutoffs, no depth limit and a fresh cache, the names of the
\* returned list are exactly the names reachable from the start name along one
\* or more edges, without the start name; cycles and self-loops included.
ClosureIsReach ==
    (gad_pc = "done" /\ cutoffs = {} /\ max_depth = Inf)
        => Range(gad_result) = Reach(current_graph, gad_name) \ {gad_name}

\* A finished call on a graph with a cycle through the start name and two
\* other names, which returned those two names.
ClosureIsReachWitness ==
    /\ gad_pc = "done" /\ cutoffs = {} /\ max_depth = Inf
    /\ \E n \in Names \ {gad_name} :
          /\ n \in Reach(current_graph, gad_name)
          /\ gad_name \in Reach(current_graph, n)
    /\ Cardinality(Range(gad_result)) = 2

\* C3: every call of get_all_deps returns a list, whatever the graph and the
\* start name; it neither runs forever nor exhausts the stack on a cycle.
TerminatesDeps == <>(gad_pc = "done")

\* A call that returned on a graph where the start name lies on a cycle
\* A -> B -> A and some name has a self-loop, with no cutoff or depth limit
\* to stop the recursion.
TerminatesDepsWitness ==
    /\ gad_pc = "done" /\ cutoffs = {} /\ max_depth = Inf
    /\ \E n \in Names \ {gad_name} :
          /\ n \in Succ(current_graph, gad_name)
          /\ gad_name \in Succ(current_graph, n)
    /\ \E n \in Names : n \in Succ(current_graph, n)

\* C4: the returned list holds neither the start name nor a name of cutoffs.
NoStartNoCutoffs ==
    gad_pc = "done"
        => /\ gad_name \notin Range(gad_result)
           /\ Range(gad_result) \cap cutoffs = {}

\* A finished call whose start name lies on a cycle and reaches a cutoff
\* name, and which returned some name.
NoStartNoCutoffsWitness ==
    /\ gad_pc = "done"
    /\ gad_name \in Reach(current_graph, gad_name)
    /\ Reach(current_graph, gad_name) \cap cutoffs # {}
    /\ gad_result # << >>

(***************************************************************************)
(* merge_symbols, init.py:223-282.                                         *)
(* A Symbol is what merge_symbols reads of it: the text of its cursor      *)
(* (get_cursor_code), cursor.is_definition() and the resolved path of the  *)
(* translation unit it was harvested from.  A table is the symbol table of *)
(* one translation unit, so its symbols share their source.                *)
(***************************************************************************)
\* Resolved translation unit paths.
Files == {"f1.c", "f2.c", "f3.c"}

\* Cursor texts.
Codes == {"a", "b", "c"}

\* Names of the symbol tables.
MergeNames == {"x"}

\* The largest number of tables merge_symbols is handed.
MaxTables == 3

SymbolValues == [code : Codes, is_definition : BOOLEAN, source : Files]

Tables ==
    UNION {{t \in [K -> SymbolValues] : \A m, n \in K : t[m].source = t[n].source}
           : K \in SUBSET MergeNames}

\* The source of a table (none for a table without symbols).
SourcesOf(t) == {t[n].source : n \in DOMAIN t}

\* The tables of up to MaxTables translation units, each unit with a path of
\* its own, in any processing order.
TableLists ==
    {ts \in SeqsUpTo(Tables, MaxTables) :
        \A i, j \in 1..Len(ts) : i # j => SourcesOf(ts[i]) \cap SourcesOf(ts[j]) = {}}

\* Lists of distinct paths.
PriorityLists ==
    {p \in SeqsUpTo(Files, Cardinality(Files)) :
        \A i, j \in 1..Len(p) : i # j => p[i] # p[j]}

\* list.index: the first position of f.
Index(prio, f) == CHOOSE i \in 1..Len(prio) : prio[i] = f /\ \A j \in 1..(i - 1) : prio[j] # f

InPriority(prio, f) == f \in Range(prio)

\* A chain that looks at the priority list before the definition status
\* (used to test DefinitionWins).
ResolvePriorityFirst(g, s, prio) ==
    IF InPriority(prio, g.source) /\ ~InPriority(prio, s.source) THEN "keep"
    ELSE IF ~InPriority(prio, g.source) /\ InPriority(prio, s.source) THEN "take"
    ELSE IF g.is_definition /\ ~s.is_definition THEN "keep"
    ELSE IF ~g.is_definition /\ s.is_definition THEN "take"
    ELSE "raise"

\* A chain whose last arm keeps the recorded symbol instead of raising
\* (used to test UnresolvedConflictRaises).
ResolveNeverRaises(g, s, prio) ==
    IF g.is_definition /\ ~s.is_definition THEN "keep"
    ELSE IF ~g.is_definition /\ s.is_definition THEN "take"
    ELSE IF InPriority(prio, g.source) /\ ~InPriority(prio, s.source) THEN "keep"
    ELSE IF ~InPriority(prio, g.source) /\ InPriority(prio, s.source) THEN "take"
    ELSE IF /\ InPriority(prio, g.source) /\ InPriority(prio, s.source)
            /\ Index(prio, g.source) > Index(prio, s.source) THEN "take"
    ELSE "keep"

\* A chain with the two index comparisons exchanged (used to test PriorityWins).
ResolveHigherIndex(g, s, prio) ==
    IF g.is_definition /\ ~s.is_definition THEN "keep"
    ELSE IF ~g.is_definition /\ s.is_definition THEN "take"
    ELSE IF InPriority(prio, g.source) /\ ~InPriority(prio, s.source) THEN "keep"
    ELSE IF ~InPriority(prio, g.source) /\ InPriority(prio, s.source) THEN "take"
    ELSE IF /\ InPriority(prio, g.source) /\ InPriority(prio, s.source)
            /\ Index(prio, g.source) < Index(prio, s.source) THEN "take"
    ELSE IF /\ InPriority(prio, g.source) /\ InPriority(prio, s.source)
            /\ Index(prio, g.source) > Index(prio, s.source) THEN "keep"
    ELSE "raise"

\* init.py:249-282: the if/elif chain for a name already in global_symbols
\* whose text differs.  g is global_symbols[name], s the incoming symbol:
\* "keep" is `continue`, "take" is `global_symbols[name] = symbol`.
Resolve(g, s, prio) ==
    IF g.is_definition /\ ~s.is_definition THEN "keep"
    ELSE IF ~g.is_definition /\ s.is_definition THEN "take"
    ELSE IF InPriority(prio, g.source) /\ ~InPriority(prio, s.source) THEN "keep"
    ELSE IF ~InPriority(prio, g.source) /\ InPriority(prio, s.source) THEN "take"
    ELSE IF /\ InPriority(prio, g.source) /\ InPriority(prio, s.source)
            /\ Index(prio, g.source) > Index(prio, s.source) THEN "take"
    ELSE IF /\ InPriority(prio, g.source) /\ InPriority(prio, s.source)
            /\ Index(prio, g.source) < Index(prio, s.source) THEN "keep"
    ELSE "raise"

\* init.py:233-282: the arm the inner loop's body takes for (name, symbol).
Branch(table, name, s, prio) ==
    IF name \notin DOMAIN table THEN "add"
    ELSE IF table[name].code = s.code THEN "same"
    ELSE Resolve(table[name], s, prio)

\* init.py:279-281: the message names the symbol and both source files.
ConflictMessage(name, g, s) ==
    [symbol |-> name, found_in |-> <<g.source, s.source>>]

\* init.py:233-282: one pass of the inner loop's body.
MergeOne(table, name, s, prio) ==
    LET b == Branch(table, name, s, prio)
    IN  IF b \in {"add", "take"}
        THEN [table |-> DictSet(table, name, s), error |-> << >>]
        ELSE IF b = "raise"
        THEN [table |-> table, error |-> <<ConflictMessage(name, table[name], s)>>]
        ELSE [table |-> table, error |-> << >>]

MsInit ==
    /\ list_of_symbols \in TableLists
    /\ source_priority \in PriorityLists
    /\ global_symbols = EmptyDict
    /\ ms_t = 0
    /\ ms_todo = {}
    /\ ms_error = << >>
    /\ ms_result = << >>
    /\ ms_pc = "run"
    /\ GadIdle /\ dependencies = EmptyDict /\ RsIdle /\ EmitIdle /\ ExtIdle

MsFrame == /\ UNCHANGED <<list_of_symbols, source_priority>>
           /\ UNCHANGED <<gadVars, dependencies, rsVars, emitVars, extVars>>

\* init.py:230: the outer loop takes the next table.
MsNextTable ==
    /\ ms_pc = "run" /\ ms_todo = {} /\ ms_t < Len(list_of_symbols)
    /\ ms_t' = ms_t + 1
    /\ ms_todo' = DOMAIN list_of_symbols[ms_t + 1]
    /\ UNCHANGED <<global_symbols, ms_error, ms_result, ms_pc>>
    /\ MsFrame

\* The inner loop's body for name, in the arm `arm`.
MsBody(name, arm) ==
    /\ ms_pc = "run" /\ name \in ms_todo
    /\ LET s == list_of_symbols[ms_t][name]
           r == MergeOne(global_symbols, name, s, source_priority)
       IN  /\ Branch(global_symbols, name, s, source_priority) = arm
           /\ global_symbols' = r.table
           /\ ms_error' = r.error
           /\ ms_pc' = IF r.error # << >> THEN "error" ELSE "run"
    /\ ms_todo' = ms_todo \ {name}
    /\ UNCHANGED <<ms_t, ms_result>>
    /\ MsFrame

\* init.py:234-236
MsAdd == \E name \in ms_todo : MsBody(name, "add")

\* init.py:239-242
MsSameCode == \E name \in ms_todo : MsBody(name, "same")

\* init.py:250-254, 261-262, 271-276
MsKeep == \E name \in ms_todo : MsBody(name, "keep")

\* init.py:255-259, 263-270
MsTake == \E name \in ms_todo : MsBody(name, "take")

\* init.py:277-281
MsRaise == \E name \in ms_todo : MsBody(name, "raise")

\* init.py:282
MsReturn ==
    /\ ms_pc = "run" /\ ms_todo = {} /\ ms_t = Len(list_of_symbols)
    /\ ms_result' = <<global_symbols>>
    /\ ms_pc' = "done"
    /\ UNCHANGED <<global_symbols, ms_t, ms_todo, ms_error>>
    /\ MsFrame

MsNext == MsNextTable \/ MsAdd \/ MsSameCode \/ MsKeep \/ MsTake \/ MsRaise \/ MsReturn

SpecMerge == MsInit /\ [][MsNext]_vars

\* init.py:232-282: the inner loop over the names `todo` of table t, from the
\* state st = [table, error]; a raise ends the merge.
RECURSIVE MergeTable(_, _, _, _)
MergeTable(st, t, todo, prio) ==
    IF todo = {} \/ st.error # << >> THEN st
    ELSE LET name == CHOOSE n \in todo : TRUE
         IN  MergeTable(MergeOne(st.table, name, t[name], prio), t, todo \ {name}, prio)

\* init.py:229-282: the outer loop from table k on.
RECURSIVE MergeFrom(_, _, _, _)
MergeFrom(tables, k, st, prio) ==
    IF k > Len(tables) \/ st.error # << >> THEN st
    ELSE MergeFrom(tables, k + 1, MergeTable(st, tables[k], DOMAIN tables[k], prio), prio)

\* merge_symbols(tables, prio): the merged table, or the error raised.
MergeAll(tables, prio) ==
    MergeFrom(tables, 1, [table |-> EmptyDict, error |-> << >>], prio)

Perms(n) == {p \in [1..n -> 1..n] : \A i, j \in 1..n : p[i] = p[j] => i = j}

Permute(s, p) == [i \in 1..Len(s) |-> s[p[i]]]

\* Every ordering of the tables merge_symbols was handed, merged.
Outcomes == {MergeAll(Permute(list_of_symbols, p), source_priority)
             : p \in Perms(Len(list_of_symbols))}

\* The priority list holds the source file of every input symbol.
CompletePriority ==
    \A k \in 1..Len(list_of_symbols) : \A n \in DOMAIN list_of_symbols[k] :
        InPriority(source_priority, list_of_symbols[k][n].source)

(***************************************************************************)
(* Claims about merge_symbols.                                             *)
(***************************************************************************)
\* The inner loop's body handles `name` in this step.
Handles(name) == ms_pc = "run" /\ name \in ms_todo /\ name \notin ms_todo'

\* `name` is already recorded, with a text that differs from the incoming one.
Collides(name) ==
    /\ name \in DOMAIN global_symbols
    /\ global_symbols[name].code # list_of_symbols[ms_t][name].code

\* C5: when a name collides with differing text and exactly one side is a
\* definition, the step keeps the definition and raises nothing, whichever
\* side was recorded first and whatever the priority list says of their files.
DefinitionWins ==
    [][\A name \in MergeNames :
          LET g == global_symbols[name]
              s == list_of_symbols[ms_t][name]
          IN  (Handles(name) /\ Collides(name) /\ g.is_definition # s.is_definition)
                  => /\ ms_pc' = "run"
                     /\ global_symbols'[name] = IF g.is_definition THEN g ELSE s]_vars

\* A finished merge of a declaration from the first file of the priority list
\* and then a definition, with another text, from a file not in the list: the
\* definition is the winner.
DefinitionWinsWitness ==
    /\ ms_pc = "done" /\ Len(list_of_symbols) = 2
    /\ \E name \in MergeNames :
          /\ name \in DOMAIN list_of_symbols[1] /\ name \in DOMAIN list_of_symbols[2]
          /\ LET d == list_of_symbols[1][name]
                 f == list_of_symbols[2][name]
             IN  /\ ~d.is_definition /\ f.is_definition /\ d.code # f.code
                 /\ source_priority # << >> /\ source_priority[1] = d.source
                 /\ ~InPriority(source_priority, f.source)
                 /\ global_symbols[name] = f

\* C6: when a name collides with differing text, both sides have the same
\* definition status and neither source file is in the priority list, the step
\* raises an error that names the symbol and both source files, and
\* merge_symbols returns no table.
UnresolvedConflictRaises ==
    [][\A name \in MergeNames :
          LET g == global_symbols[name]
              s == list_of_symbols[ms_t][name]
          IN  (/\ Handles(name) /\ Collides(name)
               /\ g.is_definition = s.is_definition
               /\ ~InPriority(source_priority, g.source)
               /\ ~InPriority(source_priority, s.source))
                  => /\ ms_pc' = "error"
                     /\ ms_error' = <<[symbol |-> name,
                                       found_in |-> <<g.source, s.source>>]>>
                     /\ ms_result' = << >>]_vars

\* Two units define the same name with differing bodies and there is no
\* priority list: the merge has raised, naming both files.
UnresolvedConflictRaisesWitness ==
    /\ ms_pc = "error" /\ source_priority = << >> /\ Len(list_of_symbols) = 2
    /\ ms_result = << >>
    /\ \E name \in MergeNames :
          /\ name \in DOMAIN list_of_symbols[1] /\ name \in DOMAIN list_of_symbols[2]
          /\ LET a == list_of_symbols[1][name]
                 b == list_of_symbols[2][name]
             IN  /\ a.is_definition /\ b.is_definition /\ a.code # b.code
                 /\ a.source # b.source
                 /\ ms_error = <<[symbol |-> name, found_in |-> <<a.source, b.source>>]>>

\* C7: given a priority list that holds the source file of every input symbol,
\* every ordering of the input tables yields the same winner (text and source
\* file) for every name.
OrderIndependentWithCompletePriority ==
    (ms_pc = "done" /\ CompletePriority)
        => \A o \in Outcomes : o.error = << >> /\ o.table = global_symbols

\* C8: with an incomplete or absent priority list either every ordering of the
\* tables fails or every ordering returns the same winner for every name.
OrderNeverDecidesWithoutCompletePriority ==
    (ms_pc \in {"done", "error"} /\ ~CompletePriority)
        => \/ \A o \in Outcomes : o.error # << >>
           \/ \A o1, o2 \in Outcomes : o1.error = << >> /\ o1.table = o2.table

\* C9: when a name collides with differing text and both sides have the same
\* definition status, the step keeps the side whose source file is in the
\* priority list if exactly one is, and the side with the lower priority index
\* if both are, whichever side was recorded first.
PriorityWins ==
    [][\A name \in MergeNames :
          LET g == global_symbols[name]
              s == list_of_symbols[ms_t][name]
              gin == InPriority(source_priority, g.source)
              sin == InPriority(source_priority, s.source)
          IN  (Handles(name) /\ Collides(name) /\ g.is_definition = s.is_definition)
                  => /\ (gin /\ ~sin) => (ms_pc' = "run" /\ global_symbols'[name] = g)
                     /\ (~gin /\ sin) => (ms_pc' = "run" /\ global_symbols'[name] = s)
                     /\ (gin /\ sin /\ Index(source_priority, g.source)
                                         < Index(source_priority, s.source))
                            => (ms_pc' = "run" /\ global_symbols'[name] = g)
                     /\ (gin /\ sin /\ Index(source_priority, s.source)
                                         < Index(source_priority, g.source))
                            => (ms_pc' = "run" /\ global_symbols'[name] = s)]_vars

\* A finished merge of three definitions with pairwise colliding texts: the
\* first from a file outside the priority list, the second from the last file
\* of the list, the third from its first file; the third is the winner.
PriorityWinsWitness ==
    /\ ms_pc = "done" /\ Len(list_of_symbols) = 3 /\ Len(source_priority) = 2
    /\ \E name \in MergeNames :
          /\ \A k \in 1..3 : name \in DOMAIN list_of_symbols[k]
          /\ LET a == list_of_symbols[1][name]
                 b == list_of_symbols[2][name]
                 c == list_of_symbols[3][name]
             IN  /\ a.is_definition /\ b.is_definition /\ c.is_definition
                 /\ a.code # b.code /\ b.code # c.code
                 /\ ~InPriority(source_priority, a.source)
                 /\ source_priority[2] = b.source
                 /\ source_priority[1] = c.source
                 /\ global_symbols[name] = c

(***************************************************************************)
(* reachable_subgraph, init.py:304-311.                                    *)
(* A frame holds the locals of one call: names, the loop index i of        *)
(* `for name in names`, and subgraph.                                      *)
(***************************************************************************)
\* The largest number of names the outermost call is handed.
MaxRoots == 2

\* An update that replaces the subgraph by the callee's (used to test
\* SubgraphHoldsRootsAndReachable).
DictUpdateReplacing(d, e) == e

\* dict.update: the entries of e, then those of d that e does not have.
DictUpdate(d, e) == e @@ d

\* A call whose loop is handed no names, so that it descends into nothing
\* (used to test ReturnsOnlyWithoutCycle).
RsFrameWithoutNames(names) == [names |-> << >>, i |-> 1, subgraph |-> EmptyDict]

\* init.py:307-308: the locals of a call at the head of its loop.
RsFrame(names) == [names |-> names, i |-> 1, subgraph |-> EmptyDict]

RsInit ==
    /\ dependencies \in Graphs
    /\ rs_names \in SeqsUpTo(Names, MaxRoots)
    /\ rs_stack = << >>
    /\ rs_result = << >>
    /\ rs_pc = "start"
    /\ GadIdle /\ MsIdle /\ EmitIdle /\ ExtIdle

RsOthers == UNCHANGED <<gadVars, msVars, dependencies, rs_names, emitVars, extVars>>

\* reachable_subgraph(dependencies, rs_names): init.py:307.
RsEnter ==
    /\ rs_pc = "start"
    /\ rs_stack' = <<RsFrame(rs_names)>>
    /\ rs_pc' = "run"
    /\ UNCHANGED rs_result
    /\ RsOthers

\* init.py:309-310: record the name's neighbors and call for them.
RsVisit ==
    /\ rs_pc = "run"
    /\ Len(rs_stack) < RecursionLimit
    /\ LET f == Top(rs_stack)
       IN  /\ f.i <= Len(f.names)
           /\ f.names[f.i] \in DOMAIN dependencies
           /\ rs_stack' =
                Append(SetTop(rs_stack,
                              [f EXCEPT !.subgraph =
                                  DictSet(@, f.names[f.i], dependencies[f.names[f.i]])]),
                       RsFrame(dependencies[f.names[f.i]]))
    /\ UNCHANGED <<rs_result, rs_pc>>
    /\ RsOthers

\* init.py:309: dependencies[name] for a name that is no key.
RsKeyError ==
    /\ rs_pc = "run"
    /\ LET f == Top(rs_stack)
       IN  /\ f.i <= Len(f.names)
           /\ f.names[f.i] \notin DOMAIN dependencies
    /\ rs_pc' = "KeyError"
    /\ UNCHANGED <<rs_stack, rs_result>>
    /\ RsOthers

\* init.py:310: the call that would exceed the interpreter's recursion limit.
RsRecursionError ==
    /\ rs_pc = "run"
    /\ Len(rs_stack) >= RecursionLimit
    /\ LET f == Top(rs_stack)
       IN  /\ f.i <= Len(f.names)
           /\ f.names[f.i] \in DOMAIN dependencies
    /\ rs_pc' = "RecursionError"
    /\ UNCHANGED <<rs_stack, rs_result>>
    /\ RsOthers

\* init.py:311 and, in the caller, init.py:310: subgraph.update(...) and the
\* loop's step to the next name.
RsReturn ==
    /\ rs_pc = "run"
    /\ LET f == Top(rs_stack)
       IN  /\ f.i > Len(f.names)
           /\ IF Len(rs_stack) = 1
              THEN /\ rs_result' = <<f.subgraph>>
                   /\ rs_stack' = << >>
                   /\ rs_pc' = "done"
              ELSE LET caller == rs_stack[Len(rs_stack) - 1]
                   IN  /\ rs_stack' =
                            SetTop(Pop(rs_stack),
                                   [caller EXCEPT
                                       !.subgraph = DictUpdate(@, f.subgraph),
                                       !.i = @ + 1])
                       /\ UNCHANGED <<rs_result, rs_pc>>
    /\ RsOthers

RsNext == RsEnter \/ RsVisit \/ RsKeyError \/ RsRecursionError \/ RsReturn

SpecReach == RsInit /\ [][RsNext]_vars

(***************************************************************************)
(* Claims about reachable_subgraph.                                        *)
(***************************************************************************)
\* Every neighbor of g is a key of g.
Closed(g) == \A n \in DOMAIN g : Range(g[n]) \subseteq DOMAIN g

\* C10: for an acyclic graph whose neighbors are all keys, the keys of the
\* returned subgraph include every root, and every key is a root or reachable
\* from a root.
SubgraphHoldsRootsAndReachable ==
    (rs_pc = "done" /\ Acyclic(dependencies) /\ Closed(dependencies))
        => /\ Range(rs_names) \subseteq DOMAIN rs_result[1]
           /\ \A k \in DOMAIN rs_result[1] :
                 \E r \in Range(rs_names) :
                    k = r \/ k \in Reach(dependencies, r)

\* A returned call on an acyclic, closed graph with two roots, one of which
\* reaches a name that is no root through another name.
SubgraphHoldsRootsAndReachableWitness ==
    /\ rs_pc = "done" /\ Acyclic(dependencies) /\ Closed(dependencies)
    /\ Cardinality(Range(rs_names)) = 2
    /\ \E r \in Range(rs_names) : \E k \in DOMAIN rs_result[1] \ Range(rs_names) :
          /\ k \in Reach(dependencies, r)
          /\ k \notin Succ(dependencies, r)

(***************************************************************************)
(* init's emission loop, init.py:68-78, over graphlib's TopologicalSorter   *)
(* (the standard library class init.py:71 instantiates), modelled with its *)
(* own state: _node2info (a dict, in insertion order), _ready_nodes,       *)
(* _npassedout and _nfinished.  The text of a symbol is named by the       *)
(* symbol, so `sources` is the sequence of the symbols whose text was      *)
(* appended.                                                               *)
(***************************************************************************)
\* graphlib._NODE_OUT and graphlib._NODE_DONE
NODE_OUT == -1

NODE_DONE == -2

\* The orders in which a dict with key set K lists its keys.
KeyOrders(K) ==
    {s \in [1..Cardinality(K) -> K] : \A i, j \in 1..Cardinality(K) : s[i] = s[j] => i = j}

\* TopologicalSorter._get_nodeinfo on the state st = [info, keys].
GetNodeInfo(st, node) ==
    IF node \in DOMAIN st.info THEN st
    ELSE [info |-> DictSet(st.info, node, [npredecessors |-> 0, successors |-> << >>]),
          keys |-> Append(st.keys, node)]

\* TopologicalSorter.add: `for pred in predecessors`.
RECURSIVE AddPreds(_, _, _, _)
AddPreds(st, node, preds, k) ==
    IF k > Len(preds) THEN st
    ELSE LET s1 == GetNodeInfo(st, preds[k])
             s2 == [s1 EXCEPT !.info[preds[k]].successors = Append(@, node)]
         IN  AddPreds(s2, node, preds, k + 1)

\* TopologicalSorter.add(node, *predecessors)
SorterAdd(st, node, preds) ==
    LET s1 == GetNodeInfo(st, node)
        s2 == [s1 EXCEPT !.info[node].npredecessors = @ + Len(preds)]
    IN  AddPreds(s2, node, preds, 1)

\* TopologicalSorter.__init__: `for node, predecessors in graph.items()`.
RECURSIVE SorterItems(_, _, _, _)
SorterItems(st, graph, keys, k) ==
    IF k > Len(keys) THEN st
    ELSE SorterItems(SorterAdd(st, keys[k], graph[keys[k]]), graph, keys, k + 1)

\* TopologicalSorter.prepare: the nodes without predecessors, in dict order.
ReadyAtPrepare(info, keys) ==
    LET NoPred(n) == info[n].npredecessors = 0
    IN  SelectSeq(keys, NoPred)

\* A sorter that never finds a cycle (used to test CycleFailsEmission).
FindsCycleNever(info) == FALSE

\* TopologicalSorter._find_cycle returns a cycle: some node reaches itself
\* along successor edges.
FindsCycle(info) ==
    LET succ == [n \in DOMAIN info |-> info[n].successors]
    IN  \E n \in DOMAIN info : n \in Reach(succ, n)

\* TopologicalSorter.get_ready: mark the nodes of the group as passed out.
RECURSIVE MarkOut(_, _, _)
MarkOut(info, group, k) ==
    IF k > Len(group) THEN info
    ELSE MarkOut([info EXCEPT ![group[k]].npredecessors = NODE_OUT], group, k + 1)

\* TopologicalSorter.done: `for successor in nodeinfo.successors`, on the
\* state st = [info, ready].
RECURSIVE Release(_, _, _)
Release(st, succs, k) ==
    IF k > Len(succs) THEN st
    ELSE LET n == succs[k]
             left == st.info[n].npredecessors - 1
             s1 == [st EXCEPT !.info[n].npredecessors = left]
         IN  Release(IF left = 0 THEN [s1 EXCEPT !.ready = Append(@, n)] ELSE s1,
                     succs, k + 1)

\* TopologicalSorter.done(*nodes): `for node in nodes`.
RECURSIVE SorterDone(_, _, _)
SorterDone(st, nodes, k) ==
    IF k > Len(nodes) THEN st
    ELSE LET s1 == [st EXCEPT !.info[nodes[k]].npredecessors = NODE_DONE]
         IN  SorterDone(Release(s1, st.info[nodes[k]].successors, 1), nodes, k + 1)

\* TopologicalSorter.is_active
IsActive == nfinished < npassedout \/ ready_nodes # << >>

\* A list that takes the new text at its front (used to test
\* EmissionRespectsDependencies).
ListPrepend(list, x) == <<x>> \o list

\* init.py:77 `sources.append(symbol_code)`
ListAppend(list, x) == Append(list, x)

\* A test that takes every name for a key of the table (used to test
\* EmitsExactlyRetainedNames).
RetainedAlways(symbol_name, table) == TRUE

\* init.py:73 `symbol_name not in symbols`, negated
Retained(symbol_name, table) == symbol_name \in table

EmitInit ==
    /\ dependencies \in Graphs
    /\ dep_keys \in KeyOrders(DOMAIN dependencies)
    /\ symbols \in SUBSET Names
    /\ node2info = EmptyDict /\ n2i_keys = << >> /\ ready_nodes = << >>
    /\ npassedout = 0 /\ nfinished = 0
    /\ node_group = << >> /\ group_i = 0
    /\ sources = << >> /\ warnings = << >>
    /\ emit_pc = "start"
    /\ GadIdle /\ MsIdle /\ RsIdle /\ ExtIdle

EmitOthers ==
    UNCHANGED <<gadVars, msVars, dependencies, rsVars, dep_keys, symbols, extVars>>

\* init.py:71 `TopologicalSorter(dependencies)`
EmitConstruct ==
    /\ emit_pc = "start"
    /\ LET st == SorterItems([info |-> EmptyDict, keys |-> << >>],
                             dependencies, dep_keys, 1)
       IN  /\ node2info' = st.info
           /\ n2i_keys' = st.keys
    /\ emit_pc' = "prepare"
    /\ UNCHANGED <<ready_nodes, npassedout, nfinished, node_group, group_i,
                   sources, warnings>>
    /\ EmitOthers

\* static_order(): self.prepare() finds no cycle.
EmitPrepare ==
    /\ emit_pc = "prepare"
    /\ ~FindsCycle(node2info)
    /\ ready_nodes' = ReadyAtPrepare(node2info, n2i_keys)
    /\ emit_pc' = "active"
    /\ UNCHANGED <<node2info, n2i_keys, npassedout, nfinished, node_group,
                   group_i, sources, warnings>>
    /\ EmitOthers

\* static_order(): self.prepare() raises CycleError, which init does not catch.
EmitCycleError ==
    /\ emit_pc = "prepare"
    /\ FindsCycle(node2info)
    /\ ready_nodes' = ReadyAtPrepare(node2info, n2i_keys)
    /\ emit_pc' = "CycleError"
    /\ UNCHANGED <<node2info, n2i_keys, npassedout, nfinished, node_group,
                   group_i, sources, warnings>>
    /\ EmitOthers

\* static_order(): `while self.is_active(): node_group = self.get_ready()`
EmitGetReady ==
    /\ emit_pc = "active"
    /\ IsActive
    /\ node_group' = ready_nodes
    /\ group_i' = 1
    /\ node2info' = MarkOut(node2info, ready_nodes, 1)
    /\ ready_nodes' = << >>
    /\ npassedout' = npassedout + Len(ready_nodes)
    /\ emit_pc' = "yield"
    /\ UNCHANGED <<n2i_keys, nfinished, sources, warnings>>
    /\ EmitOthers

\* init.py:73-75: the yielded name is no key of symbols.
EmitSkip ==
    /\ emit_pc = "yield"
    /\ group_i <= Len(node_group)
    /\ ~Retained(node_group[group_i], symbols)
    /\ warnings' = Append(warnings, node_group[group_i])
    /\ group_i' = group_i + 1
    /\ UNCHANGED <<node2info, n2i_keys, ready_nodes, npassedout, nfinished,
                   node_group, sources, emit_pc>>
    /\ EmitOthers

\* init.py:76-77: the text of the yielded name is appended.
EmitSymbol ==
    /\ emit_pc = "yield"
    /\ group_i <= Len(node_group)
    /\ Retained(node_group[group_i], symbols)
    /\ sources' = ListAppend(sources, node_group[group_i])
    /\ group_i' = group_i + 1
    /\ UNCHANGED <<node2info, n2i_keys, ready_nodes, npassedout, nfinished,
                   node_group, warnings, emit_pc>>
    /\ EmitOthers

\* static_order(): `self.done(*node_group)` after the group was yielded.
EmitGroupDone ==
    /\ emit_pc = "yield"
    /\ group_i > Len(node_group)
    /\ LET st == SorterDone([info |-> node2info, ready |-> ready_nodes],
                            node_group, 1)
       IN  /\ node2info' = st.info
           /\ ready_nodes' = st.ready
    /\ nfinished' = nfinished + Len(node_group)
    /\ emit_pc' = "active"
    /\ UNCHANGED <<n2i_keys, npassedout, node_group, group_i, sources, warnings>>
    /\ EmitOthers

\* static_order() is exhausted; init.py:78 returns the joined sources.
EmitReturn ==
    /\ emit_pc = "active"
    /\ ~IsActive
    /\ emit_pc' = "done"
    /\ UNCHANGED <<node2info, n2i_keys, ready_nodes, npassedout, nfinished,
                   node_group, group_i, sources, warnings>>
    /\ EmitOthers

EmitNext ==
    \/ EmitConstruct \/ EmitPrepare \/ EmitCycleError \/ EmitGetReady
    \/ EmitSkip \/ EmitSymbol \/ EmitGroupDone \/ EmitReturn

SpecEmit == EmitInit /\ [][EmitNext]_vars

(***************************************************************************)
(* Claims about the emission order.                                        *)
(***************************************************************************)
ChainABC == [A |-> <<"B">>, B |-> <<"C">>, C |-> << >>]

\* C1: at every point of the emission, every symbol of the table that an
\* emitted symbol transitively depends on was emitted before it and no symbol
\* is followed by one it depends on; the graph {A: [B], B: [C], C: []} is
\* emitted in the order C, B, A.
EmissionRespectsDependencies ==
    /\ \A i \in 1..Len(sources) :
          /\ \A t \in Reach(dependencies, sources[i]) \cap symbols :
                \E j \in 1..(i - 1) : sources[j] = t
          /\ \A j \in (i + 1)..Len(sources) :
                sources[j] \notin Reach(dependencies, sources[i])
    /\ (emit_pc = "done" /\ dependencies = ChainABC /\ Names \subseteq symbols)
          => sources = <<"C", "B", "A">>

\* The emission of {A: [B], B: [C], C: []} with all three symbols in the table
\* has returned, in the order C, B, A.
EmissionRespectsDependenciesWitness ==
    /\ emit_pc = "done" /\ dependencies = ChainABC
    /\ sources = <<"C", "B", "A">>

(***************************************************************************)
(* c14n_symbol_name, init.py:314-327.                                      *)
(* A str is a TLA+ string; `in` between two strs is the substring test.    *)
(***************************************************************************)

\* The export names a caller asks for.
ExportNames == {"add", "sub", "dd", "mul"}

\* The keys of symbol tables and the spellings of their cursors.
TableKeys == {"add", "c:@F@add", "sub", "c:@F@sub"}
Spellings == {"add", "sub", "addsub"}

\* dict[str, Symbol]: a table maps a key to a Symbol of that name
\* (ast.py:90, 102, 112, 122, 148 store Symbol(name, ...) under name),
\* whose cursor has a spelling.
SymbolTables ==
    UNION {{[k \in K |-> [name |-> k, spelling |-> sp[k]]] : sp \in [K -> Spellings]}
           : K \in SUBSET TableKeys}

\* Python's `sub in s` for two strs.
StrContains(s, sub) ==
    \/ Len(sub) = 0
    \/ \E i \in 1..(Len(s) - Len(sub) + 1) : SubSeq(s, i, i + Len(sub) - 1) = sub

\* init.py:317 f"c:@F@{name}"
Mangled(name) == "c:@F@" \o name

\* init.py:321 {s.name for s in symbols.values() if name in s.cursor.spelling}
PotentialNames(name, table) ==
    {table[k].name : k \in {x \in DOMAIN table : StrContains(table[x].spelling, name)}}

\* A lookup that tries the mangled key first (used to test C14nResolutionOrder).
c14n_mangled_first(name, table) ==
    IF Mangled(name) \in DOMAIN table THEN [kind |-> "return", value |-> Mangled(name)]
    ELSE IF name \in DOMAIN table THEN [kind |-> "return", value |-> name]
    ELSE LET potential_names == PotentialNames(name, table)
         IN  IF Cardinality(potential_names) # 1
             THEN [kind |-> "ValueError", value |-> ""]
             ELSE [kind |-> "return", value |-> CHOOSE n \in potential_names : TRUE]

\* init.py:314-327: the outcome of a call, a returned name or a ValueError.
c14n_symbol_name(name, table) ==
    IF name \in DOMAIN table THEN [kind |-> "return", value |-> name]
    ELSE IF Mangled(name) \in DOMAIN table
    THEN [kind |-> "return", value |-> Mangled(name)]
    ELSE LET potential_names == PotentialNames(name, table)
         IN  IF Cardinality(potential_names) = 0
             THEN [kind |-> "ValueError", value |-> ""]
             ELSE IF Cardinality(potential_names) # 1
             THEN [kind |-> "ValueError", value |-> ""]
             ELSE [kind |-> "return", value |-> CHOOSE n \in potential_names : TRUE]

C14nInit ==
    /\ c14n_name \in ExportNames
    /\ c14n_symbols \in SymbolTables
    /\ c14n_result = << >>
    /\ c14n_pc = "start"
    /\ BaseIdle
    /\ CallerIdle /\ PrefixIdle /\ HarvestIdle /\ RangeIdle /\ McgIdle
    /\ FilterIdle /\ InitIdle

C14nOthers ==
    UNCHANGED <<baseVars, c14n_name, c14n_symbols, callerVars, prefixVars,
                harvestVars, rangeVars, mcgVars, filterVars, initVars>>

\* init.py:97: one call c14n_symbol_name(name, project_symbols).
C14nCall ==
    /\ c14n_pc = "start"
    /\ LET r == c14n_symbol_name(c14n_name, c14n_symbols)
       IN  IF r.kind = "return"
           THEN c14n_result' = <<r.value>> /\ c14n_pc' = "done"
           ELSE c14n_result' = c14n_result /\ c14n_pc' = "ValueError"
    /\ C14nOthers

C14nNext == C14nCall

SpecC14n == C14nInit /\ [][C14nNext]_vars

\* The keys whose symbol's spelling contains the requested name.
SpellingMatches == {k \in DOMAIN c14n_symbols :
                       StrContains(c14n_symbols[k].spelling, c14n_name)}

\* C11: a finished call returned the name itself when it is a key; otherwise
\* "c:@F@" + name when that is a key; otherwise the only symbol whose spelling
\* contains the name; and it raised exactly when neither key exists and the
\* number of symbols matching by substring is not one.
C14nResolutionOrder ==
    c14n_pc \in {"done", "ValueError"} =>
        IF c14n_name \in DOMAIN c14n_symbols
        THEN c14n_pc = "done" /\ c14n_result = <<c14n_name>>
        ELSE IF ("c:@F@" \o c14n_name) \in DOMAIN c14n_symbols
        THEN c14n_pc = "done" /\ c14n_result = <<"c:@F@" \o c14n_name>>
        ELSE IF Cardinality(SpellingMatches) = 1
        THEN c14n_pc = "done" /\ \E k \in SpellingMatches : c14n_result = <<k>>
        ELSE c14n_pc = "ValueError" /\ c14n_result = << >>

\* "add" asked of a table that holds both "add" and "c:@F@add": the exact key
\* is returned.
C14nResolutionOrderWitness ==
    /\ c14n_pc = "done" /\ c14n_name = "add"
    /\ {"add", "c:@F@add"} \subseteq DOMAIN c14n_symbols
    /\ c14n_result = <<"add">>

(***************************************************************************)
(* A caller of get_all_deps that hands every call the same cache dict, as  *)
(* extract_info_c does (ast.py:154-157): `cache = {}` and then             *)
(* get_all_deps(graph, name, cache=cache) call after call.  Here the       *)
(* caller makes two calls for the same name.  The caller's dict is         *)
(* caches[1].                                                              *)
(***************************************************************************)

\* The caller's dict before its first call: empty (ast.py:154), or holding the
\* entry get_all_deps stores for a name that is no key of the graph
\* (utils.py:62-64).
CallerCaches(g, start) ==
    {EmptyDict} \cup {(n :> << >>) : n \in Names \ (DOMAIN g \cup {start})}

SharedInit ==
    /\ current_graph \in Graphs
    /\ gad_name \in Names
    /\ cutoffs \in {{}} \cup {{n} : n \in Names}
    /\ max_depth = Inf
    /\ \E c \in CallerCaches(current_graph, gad_name) : caches = <<c>>
    /\ visited = {}
    /\ gad_stack = << >>
    /\ gad_result = << >>
    /\ gad_pc = "start"
    /\ gad_round = 1
    /\ gad_first = << >>
    /\ MsIdle /\ dependencies = EmptyDict /\ RsIdle /\ EmitIdle
    /\ C14nIdle /\ PrefixIdle /\ HarvestIdle /\ RangeIdle /\ McgIdle
    /\ FilterIdle /\ InitIdle

\* ast.py:157: get_all_deps(graph, name, cache=cache), the cache being the
\* caller's dict.
GadEnterShared ==
    /\ gad_pc = "start"
    /\ gad_round \in {1, 2}
    /\ LET p == Prologue(gad_name, 1, 0, caches, {})
       IN  /\ caches' = p.heap
           /\ visited' = p.vis
           /\ IF p.kind = "ret"
              THEN /\ gad_result' = p.ret
                   /\ gad_stack' = gad_stack
                   /\ gad_pc' = "done"
              ELSE /\ gad_result' = gad_result
                   /\ gad_stack' = <<p.frame>>
                   /\ gad_pc' = "run"
    /\ UNCHANGED <<current_graph, gad_name, cutoffs, max_depth>>
    /\ UNCHANGED <<msVars, dependencies, rsVars, emitVars, c14nVars, callerVars,
                   prefixVars, harvestVars, rangeVars, mcgVars, filterVars, initVars>>

\* The caller keeps the first call's list and calls again with the same dict.
GadAgain ==
    /\ gad_pc = "done"
    /\ gad_round = 1
    /\ gad_first' = <<gad_result>>
    /\ gad_round' = 2
    /\ gad_result' = << >>
    /\ gad_pc' = "start"
    /\ UNCHANGED <<current_graph, gad_name, cutoffs, max_depth, caches, visited,
                   gad_stack>>
    /\ UNCHANGED <<msVars, dependencies, rsVars, emitVars, c14nVars, prefixVars,
                   harvestVars, rangeVars, mcgVars, filterVars, initVars>>

SharedNext == GadEnterShared \/ GadSkipCutoff \/ GadCall \/ GadReturn \/ GadAgain

SpecDepsShared == SharedInit /\ [][SharedNext]_vars

\* C12: of two successive calls for the same name that share the caller's
\* cache, the second is answered from the cache (it never enters the loop
\* over the name's neighbours) and returns the list the first returned.
SecondCallAnsweredFromCache ==
    gad_round = 2 =>
        /\ gad_pc # "run"
        /\ gad_pc = "done" => gad_first = <<gad_result>>

(***************************************************************************)
(* Claims about max_depth (get_all_deps, utils.py:57 and 72-96).           *)
(***************************************************************************)

\* The names at most d hops (one hop or more) away from the names of S.
RECURSIVE WithinHops(_, _, _)
WithinHops(g, S, d) ==
    IF d <= 0 THEN {}
    ELSE LET next == UNION {Succ(g, n) : n \in S}
         IN  next \cup WithinHops(g, next, d - 1)

\* The names some active call is expanding (it is in its loop).
Expanding == {gad_stack[k].name : k \in 1..Len(gad_stack)}

\* C13 as stated: with max_depth = d, a name more than d hops away from the
\* start name is neither expanded nor in the returned list.
DepthBoundsExpansionAndResult ==
    max_depth # Inf =>
        /\ Expanding \subseteq {gad_name} \cup WithinHops(current_graph, {gad_name}, max_depth)
        /\ gad_pc = "done" =>
              Range(gad_result) \subseteq WithinHops(current_graph, {gad_name}, max_depth)

\* C13 as amended: with max_depth = d and no cache handed in, a name more than
\* d hops away from the start name is never expanded, and the returned list
\* holds only names at most d + 1 hops away: the neighbours of a name d hops
\* away are appended although they are not expanded.
DepthBoundsExpansion ==
    max_depth # Inf =>
        /\ Expanding \subseteq {gad_name} \cup WithinHops(current_graph, {gad_name}, max_depth)
        /\ gad_pc = "done" =>
              Range(gad_result) \subseteq
                  WithinHops(current_graph, {gad_name}, max_depth + 1)

\* A finished call with max_depth = 0 on a graph where a name lies two hops
\* away and no nearer: the list holds the direct neighbours and not that name.
DepthBoundsExpansionWitness ==
    /\ gad_pc = "done" /\ max_depth = 0 /\ cutoffs = {}
    /\ gad_result # << >>
    /\ Range(gad_result) = WithinHops(current_graph, {gad_name}, 1)
    /\ Reach(current_graph, gad_name) \ ({gad_name} \cup Range(gad_result)) # {}

(***************************************************************************)
(* get_asts with prefix_internally_linked=True (init.py:130-150) and       *)
(* add_prefix_to_internally_linked_cursors (init.py:153-177), with         *)
(* clang_rename_ (tools.py:408-420).                                       *)
(* A source file is the sequence of the identifiers it declares; a unit    *)
(* knows which of them (by position) have internal linkage.                *)
(***************************************************************************)

\* The source files of the compilation database.
SourcePaths == {"d1/u.c", "d2/u.c", "d1/v.c"}

\* The identifiers declared in a source file, in source order.
FileTexts == {<<"x">>, <<"u_x">>, <<"x", "u_x">>}

\* The largest number of translation units.
MaxUnits == 2

\* A translation unit: its file (tu.spelling), the identifiers of the file and
\* the positions of those with internal linkage.
Units ==
    UNION {[path : {p}, tokens : {t}, internal : SUBSET (1..Len(t))]
           : <<p, t>> \in SourcePaths \X FileTexts}

UnitLists ==
    {us \in UNION {[1..n -> Units] : n \in 1..MaxUnits} :
        \A i, j \in 1..Len(us) : us[i].path = us[j].path => i = j}

\* The last position of the character ch in s, 0 when there is none.
LastIndexOf(s, ch) ==
    LET at == {i \in 1..Len(s) : SubSeq(s, i, i) = ch}
    IN  IF at = {} THEN 0 ELSE CHOOSE i \in at : \A j \in at : j <= i

\* pathlib: Path(p).name and Path(p).stem.
PathName(p) == SubSeq(p, LastIndexOf(p, "/") + 1, Len(p))

Stem(p) ==
    LET name == PathName(p)
        dot == LastIndexOf(name, ".")
    IN  IF dot > 1 /\ dot < Len(name) THEN SubSeq(name, 1, dot - 1) ELSE name

\* The cursors with internal linkage of a unit, by spelling, in source order.
get_internally_linked_cursors(ast) ==
    LET RECURSIVE Pick(_)
        Pick(k) == IF k > Len(ast.tokens) THEN << >>
                   ELSE IF k \in ast.internal THEN <<ast.tokens[k]>> \o Pick(k + 1)
                   ELSE Pick(k + 1)
    IN  Pick(1)

\* init.py:163-165: renames, as the list of its items (old, new); a dict keeps
\* one entry per spelling.
Renames(unit) ==
    LET prefix == Stem(unit.path) \o "_"
        cursors == get_internally_linked_cursors(unit)
    IN  [k \in 1..Len(cursors) |-> <<cursors[k], prefix \o cursors[k]>>]

\* clang-refactor local-rename -i: every occurrence of old becomes new.
RenameInPlace(text, old, new) ==
    [k \in 1..Len(text) |-> IF text[k] = old THEN new ELSE text[k]]

\* A restore that runs only when nothing was raised (used to test
\* SourceFilesRestored).
RestoreOnSuccess(disk, k, bytes, raised) ==
    IF raised = "" THEN [disk EXCEPT ![k] = bytes] ELSE disk

\* init.py:174-175 `finally: source.write_bytes(source_bytes)`
RestoreAlways(disk, k, bytes, raised) == [disk EXCEPT ![k] = bytes]

PfInit ==
    /\ pf_units \in UnitLists
    /\ pf_disk = [k \in 1..Len(pf_units) |-> pf_units[k].tokens]
    /\ pf_asts = << >>
    /\ pf_u = 0
    /\ pf_renames = << >>
    /\ pf_r = 0
    /\ source_bytes = << >>
    /\ pf_raised = ""
    /\ pf_pc = "loop"
    /\ BaseIdle /\ C14nIdle /\ CallerIdle /\ HarvestIdle /\ RangeIdle /\ McgIdle
    /\ FilterIdle /\ InitIdle

PfOthers ==
    UNCHANGED <<baseVars, c14nVars, callerVars, harvestVars, rangeVars, mcgVars,
                filterVars, initVars, pf_units>>

\* init.py:140-145 and 157-170: the next unit is parsed, its renames are
\* computed and the bytes of its file are read.
PfBegin ==
    /\ pf_pc = "loop"
    /\ pf_u < Len(pf_units)
    /\ pf_u' = pf_u + 1
    /\ pf_renames' = Renames(pf_units[pf_u + 1])
    /\ pf_r' = 0
    /\ source_bytes' = <<pf_disk[pf_u + 1]>>
    /\ pf_pc' = "rename"
    /\ UNCHANGED <<pf_disk, pf_asts, pf_raised>>
    /\ PfOthers

\* tools.py:409-418: one entry of renames is done in place.
PfRenameOk ==
    /\ pf_pc = "rename"
    /\ pf_renames # << >>
    /\ pf_disk' = [pf_disk EXCEPT ![pf_u] =
                      RenameInPlace(@, Head(pf_renames)[1], Head(pf_renames)[2])]
    /\ pf_renames' = Tail(pf_renames)
    /\ pf_r' = pf_r + 1
    /\ UNCHANGED <<pf_asts, pf_u, source_bytes, pf_raised, pf_pc>>
    /\ PfOthers

\* tools.py:419-420: the tool fails for an entry and ValueError is raised; the
\* tool may or may not have written the file before it failed.
PfRenameFail ==
    /\ pf_pc = "rename"
    /\ pf_renames # << >>
    /\ \E wrote \in BOOLEAN :
          pf_disk' = IF wrote
                     THEN [pf_disk EXCEPT ![pf_u] =
                              RenameInPlace(@, Head(pf_renames)[1], Head(pf_renames)[2])]
                     ELSE pf_disk
    /\ pf_raised' = "ValueError"
    /\ pf_pc' = "finally"
    /\ UNCHANGED <<pf_asts, pf_u, pf_renames, pf_r, source_bytes>>
    /\ PfOthers

\* init.py:173: tu.reparse() reads the renamed file.
PfReparseOk ==
    /\ pf_pc = "rename"
    /\ pf_renames = << >>
    /\ pf_asts' = Append(pf_asts, [pf_units[pf_u] EXCEPT !.tokens = pf_disk[pf_u]])
    /\ pf_pc' = "finally"
    /\ UNCHANGED <<pf_disk, pf_u, pf_renames, pf_r, source_bytes, pf_raised>>
    /\ PfOthers

\* init.py:173: tu.reparse() raises.
PfReparseFail ==
    /\ pf_pc = "rename"
    /\ pf_renames = << >>
    /\ pf_raised' = "TranslationUnitLoadError"
    /\ pf_pc' = "finally"
    /\ UNCHANGED <<pf_disk, pf_asts, pf_u, pf_renames, pf_r, source_bytes>>
    /\ PfOthers

\* init.py:174-177: the finally clause, then the return of tu to get_asts or
\* the propagation of the exception out of get_asts.
PfFinally ==
    /\ pf_pc = "finally"
    /\ pf_disk' = RestoreAlways(pf_disk, pf_u, source_bytes[1], pf_raised)
    /\ pf_pc' = IF pf_raised = "" THEN "loop" ELSE "error"
    /\ UNCHANGED <<pf_asts, pf_u, pf_renames, pf_r, source_bytes, pf_raised>>
    /\ PfOthers

\* init.py:150: every unit is handled.
PfReturn ==
    /\ pf_pc = "loop"
    /\ pf_u = Len(pf_units)
    /\ pf_pc' = "done"
    /\ UNCHANGED <<pf_disk, pf_asts, pf_u, pf_renames, pf_r, source_bytes, pf_raised>>
    /\ PfOthers

PfNext ==
    \/ PfBegin \/ PfRenameOk \/ PfRenameFail \/ PfReparseOk \/ PfReparseFail
    \/ PfFinally \/ PfReturn

SpecPrefix == PfInit /\ [][PfNext]_vars

\* C14: whenever add_prefix_to_internally_linked_cursors is not running (it
\* has returned or raised, after a rename or a reparse failed), every source
\* file on disk holds exactly its original bytes.
SourceFilesRestored ==
    pf_pc \in {"loop", "done", "error"} =>
        \A k \in 1..Len(pf_units) : pf_disk[k] = pf_units[k].tokens

\* A rename step failed after an earlier rename of the same unit had changed
\* the file, and the file is back to its original bytes.
SourceFilesRestoredWitness ==
    /\ pf_pc = "error" /\ pf_raised = "ValueError" /\ pf_r >= 1
    /\ pf_disk[pf_u] = pf_units[pf_u].tokens
    /\ RenameInPlace(pf_units[pf_u].tokens, Renames(pf_units[pf_u])[1][1],
                     Renames(pf_units[pf_u])[1][2]) # pf_units[pf_u].tokens

\* C15: after every unit has been prefixed, no identifier with internal
\* linkage of one unit is spelled like an identifier of another unit.
PrefixedNamesUnique ==
    pf_pc = "done" =>
        \A i, j \in 1..Len(pf_asts) :
            i # j => \A k \in pf_asts[i].internal :
                        pf_asts[i].tokens[k] \notin Range(pf_asts[j].tokens)

(***************************************************************************)
(* extract_info_c, ast.py:72-151: the loop over the top-level nodes of a   *)
(* translation unit.  A Symbol is (name, kind, decl); a list of Symbols in *)
(* complete_graph is the list of their names.                              *)
(***************************************************************************)

\* ast.py:18-25
DECL_NODE_KIND ==
    {"FUNCTION_DECL", "TYPEDEF_DECL", "VAR_DECL", "STRUCT_DECL", "UNION_DECL",
     "ENUM_DECL"}

\* ast.py:33-38
DATA_STRUCT_NODE_MAP ==
    [STRUCT_DECL |-> "struct", UNION_DECL |-> "union", ENUM_DECL |-> "enum",
     ENUM_CONSTANT_DECL |-> "enum"]

\* A cursor: spelling, kind, is_definition(), get_usr(), the text of its
\* declaration range and of its extent, whether that range lies in one file
\* or starts and ends in two, its children (get_children()), its subtree
\* (walk_preorder(), the cursor itself first) and the names of the reference
\* nodes of the subtree.
Cursor(spelling, kind, def, usr, decl, extent, files, children, preorder, refs) ==
    [spelling |-> spelling, kind |-> kind, is_definition |-> def, usr |-> usr,
     decl |-> decl, extent |-> extent, files |-> files, children |-> children,
     preorder |-> preorder, refs |-> refs]

Child(kind, spelling) == [kind |-> kind, spelling |-> spelling]

\* The tag declarations of the model: keyword, cursor kind, tag name ("" for
\* an anonymous tag), usr, the typedef naming it, and its enumerators.
Tags ==
    {[kw |-> "struct", kind |-> "STRUCT_DECL", tag |-> "", usr |-> "c:@SA@Ts",
      typedef |-> "Ts", members |-> << >>],
     [kw |-> "struct", kind |-> "STRUCT_DECL", tag |-> "S", usr |-> "c:@S@S",
      typedef |-> "Ns", members |-> << >>],
     [kw |-> "union", kind |-> "UNION_DECL", tag |-> "", usr |-> "c:@UA@Tu",
      typedef |-> "Tu", members |-> << >>],
     [kw |-> "enum", kind |-> "ENUM_DECL", tag |-> "", usr |-> "c:@EA@Te",
      typedef |-> "Te", members |-> <<Child("ENUM_CONSTANT_DECL", "RED")>>],
     [kw |-> "enum", kind |-> "ENUM_DECL", tag |-> "E", usr |-> "c:@E@E",
      typedef |-> "Ne", members |-> <<Child("ENUM_CONSTANT_DECL", "BLUE")>>]}

\* The text of a tag declaration: `struct {}`, `struct S {}`, ...
TagText(t) == IF t.tag = "" THEN t.kw \o " {}" ELSE t.kw \o " " \o t.tag \o " {}"

\* `typedef <tag> {...} Name;` gives two top-level cursors: the tag
\* declaration, then the typedef, whose subtree holds the tag declaration.
TypedefOfTag(t, files) ==
    LET tag == Child(t.kind, t.tag)
    IN  <<Cursor(t.tag, t.kind, TRUE, t.usr, TagText(t), TagText(t), files,
                 t.members, <<tag>> \o t.members, << >>),
          Cursor(t.typedef, "TYPEDEF_DECL", TRUE, "c:@T@" \o t.typedef,
                 "typedef " \o TagText(t) \o " " \o t.typedef,
                 "typedef " \o TagText(t) \o " " \o t.typedef, files,
                 <<tag>>,
                 <<Child("TYPEDEF_DECL", t.typedef), tag>> \o t.members, << >>)>>

\* The other top-level declarations of the model, one cursor each:
\*   int f(int a) { return f(a) + v; }      int f(int);
\*   int v = 1;                             extern int v;
\*   #define M v  (a cursor of a kind extract_info_c does not know, with a
\*   name; a unit parsed with its preprocessing record has such cursors)
\*   _Static_assert(1, "");  (a cursor of such a kind, without a name)
OtherDeclarations(files) ==
    {<<Cursor("f", "FUNCTION_DECL", TRUE, "c:@F@f", "int f(int a)",
              "int f(int a) { return f(a) + v; }", files, << >>,
              <<Child("FUNCTION_DECL", "f")>>, <<"f", "v">>)>>,
     <<Cursor("f", "FUNCTION_DECL", FALSE, "c:@F@f", "int f(int)", "int f(int)",
              files, << >>, <<Child("FUNCTION_DECL", "f")>>, << >>)>>,
     <<Cursor("v", "VAR_DECL", TRUE, "c:@v", "int v", "int v = 1", files, << >>,
              <<Child("VAR_DECL", "v")>>, << >>)>>,
     <<Cursor("v", "VAR_DECL", FALSE, "c:@v", "extern int v", "extern int v",
              files, << >>, <<Child("VAR_DECL", "v")>>, << >>)>>,
     <<Cursor("M", "MACRO_DEFINITION", TRUE, "c:@macro@M", "M v", "M v", files,
              << >>, <<Child("MACRO_DEFINITION", "M")>>, << >>)>>,
     <<Cursor("", "STATIC_ASSERT", TRUE, "", "_Static_assert(1, \"\")",
              "_Static_assert(1, \"\")", files, << >>,
              <<Child("STATIC_ASSERT", "")>>, << >>)>>}

\* The declarations a translation unit is written from.  The range of a
\* declaration lies in one file, or starts in one file and ends in another
\* (it begins in a file included in the middle of it).
Declarations ==
    UNION {{TypedefOfTag(t, files) : t \in Tags} \cup OtherDeclarations(files)
           : files \in {"one", "two"}}

\* The largest number of declarations of a translation unit.
MaxDecls == 2

RECURSIVE Concat(_)
Concat(ss) == IF ss = << >> THEN << >> ELSE Head(ss) \o Concat(Tail(ss))

TranslationUnits == {Concat(ds) : ds \in SeqsUpTo(Declarations, MaxDecls)}

\* ast.py:202: the condition get_code_from_tu_range asserts of a range.
RangeAssertion(start_file, end_file) == start_file # end_file

\* ast.py:78-79 (and 103): the text of a cursor's range is fetched with
\* get_code_from_tu_range, whose assertion the range has to pass.
CursorRangePasses(node) ==
    RangeAssertion("file.c", IF node.files = "one" THEN "file.c" ELSE "other.h")

Symbol(name, kind, decl) == [name |-> name, kind |-> kind, decl |-> decl]

\* `del d[k]`
DictDel(d, k) == [x \in DOMAIN d \ {k} |-> d[x]]

\* result.complete_graph[key].append(sym) on the defaultdict (ast.py:48-50).
GraphAppend(g, key, sym) ==
    IF key \in DOMAIN g THEN [g EXCEPT ![key] = Append(@, sym)]
    ELSE DictSet(g, key, <<sym>>)

\* ast.py:93-98 and 115-118: every enumerator among the children depends on
\* the symbol.
RECURSIVE EnumeratorEdges(_, _, _, _)
EnumeratorEdges(g, children, sym, k) ==
    IF k > Len(children) THEN g
    ELSE EnumeratorEdges(IF children[k].kind = "ENUM_CONSTANT_DECL"
                         THEN GraphAppend(g, children[k].spelling, sym) ELSE g,
                         children, sym, k + 1)

\* ast.py:125-144: the walk over the subtree of a typedef.  st holds symbols,
\* graph and failed (the assertion of ast.py:136).
RECURSIVE TypedefWalk(_, _, _, _, _)
TypedefWalk(st, name, prev, preorder, k) ==
    IF k > Len(preorder) \/ st.failed THEN st
    ELSE LET child == preorder[k]
         IN  IF child.kind \notin DOMAIN DATA_STRUCT_NODE_MAP
             THEN TypedefWalk(st, name, prev, preorder, k + 1)
             ELSE
             LET full_name == DATA_STRUCT_NODE_MAP[child.kind] \o " " \o prev
                 suppress ==
                     /\ child.kind \in {"STRUCT_DECL", "UNION_DECL"}
                     /\ full_name \in DOMAIN st.symbols
                     /\ StrContains(st.symbols[name].decl, st.symbols[full_name].decl)
                 s1 == IF ~suppress THEN st
                       ELSE IF full_name = name THEN [st EXCEPT !.failed = TRUE]
                       ELSE [st EXCEPT !.symbols = DictDel(@, full_name),
                                       !.graph = GraphAppend(@, full_name, name)]
                 s2 == IF ~s1.failed /\ child.kind = "ENUM_CONSTANT_DECL"
                       THEN [s1 EXCEPT !.graph = GraphAppend(@, child.spelling, name)]
                       ELSE s1
             IN  TypedefWalk(s2, name, prev, preorder, k + 1)

\* ast.py:81-148: the arm of the match statement a cursor takes.
Arm(node) ==
    IF node.spelling = ""
    THEN IF node.kind \in DOMAIN DATA_STRUCT_NODE_MAP THEN "nameless"
         ELSE "unexpected nameless"
    ELSE IF node.kind = "FUNCTION_DECL" /\ node.is_definition
    THEN "function definition"
    ELSE IF node.kind \in DOMAIN DATA_STRUCT_NODE_MAP THEN "data structure"
    ELSE IF node.kind = "TYPEDEF_DECL" THEN "typedef"
    ELSE IF node.kind \in DECL_NODE_KIND THEN "other declaration"
    ELSE "no case"

HvInit ==
    /\ hv_nodes \in TranslationUnits
    /\ hv_i = 0
    /\ hv_symbols = EmptyDict
    /\ fn_definitions = EmptyDict
    /\ complete_graph = EmptyDict
    /\ previous_name = ""
    /\ hv_pc = "loop"
    /\ BaseIdle /\ C14nIdle /\ CallerIdle /\ PrefixIdle /\ RangeIdle /\ McgIdle
    /\ FilterIdle /\ InitIdle

HvOthers ==
    UNCHANGED <<baseVars, c14nVars, callerVars, prefixVars, rangeVars, mcgVars,
                filterVars, initVars, hv_nodes>>

\* The cursor the loop handles next.
HvNode == hv_nodes[hv_i + 1]

\* The loop is at a cursor that takes the given arm and whose text is fetched.
HvAt(arm) ==
    /\ hv_pc = "loop"
    /\ hv_i < Len(hv_nodes)
    /\ CursorRangePasses(HvNode)
    /\ Arm(HvNode) = arm

\* ast.py:151 and the step to the next cursor; name is the value of the
\* variable name after the match statement.
HvAllReferenced(g, name) ==
    /\ complete_graph' = DictSet(g, name, HvNode.refs)
    /\ hv_i' = hv_i + 1

\* ast.py:79: get_code_from_tu_range raises for the range of the cursor.
HvRangeAssertion ==
    /\ hv_pc = "loop"
    /\ hv_i < Len(hv_nodes)
    /\ ~CursorRangePasses(HvNode)
    /\ hv_pc' = "AssertionError"
    /\ UNCHANGED <<hv_i, hv_symbols, fn_definitions, complete_graph, previous_name>>
    /\ HvOthers

\* ast.py:83-98: a nameless struct, union or enum.
HvNameless ==
    /\ HvAt("nameless")
    /\ LET pseudo_name == DATA_STRUCT_NODE_MAP[HvNode.kind] \o " " \o HvNode.usr
       IN  /\ hv_symbols' = DictSet(hv_symbols, pseudo_name,
                                    Symbol(pseudo_name, HvNode.kind, HvNode.decl))
           /\ previous_name' = HvNode.usr
           /\ HvAllReferenced(EnumeratorEdges(complete_graph, HvNode.children,
                                              pseudo_name, 1), "")
    /\ UNCHANGED <<fn_definitions, hv_pc>>
    /\ HvOthers

\* ast.py:84-86: a nameless cursor of another kind fails the assertion.
HvNamelessUnexpected ==
    /\ HvAt("unexpected nameless")
    /\ hv_pc' = "AssertionError"
    /\ UNCHANGED <<hv_i, hv_symbols, fn_definitions, complete_graph, previous_name>>
    /\ HvOthers

\* ast.py:101-104: a function definition.
HvFunctionDefinition ==
    /\ HvAt("function definition")
    /\ hv_symbols' = DictSet(hv_symbols, HvNode.spelling,
                             Symbol(HvNode.spelling, HvNode.kind, HvNode.decl))
    /\ fn_definitions' = DictSet(fn_definitions, HvNode.spelling, HvNode.extent)
    /\ HvAllReferenced(complete_graph, HvNode.spelling)
    /\ UNCHANGED <<previous_name, hv_pc>>
    /\ HvOthers

\* ast.py:107-118: a named struct, union or enum.
HvDataStructure ==
    /\ HvAt("data structure")
    /\ LET name == DATA_STRUCT_NODE_MAP[HvNode.kind] \o " " \o HvNode.spelling
       IN  /\ hv_symbols' = DictSet(hv_symbols, name,
                                    Symbol(name, HvNode.kind, HvNode.decl))
           /\ previous_name' = HvNode.spelling
           /\ HvAllReferenced(EnumeratorEdges(complete_graph, HvNode.children,
                                              name, 1), name)
    /\ UNCHANGED <<fn_definitions, hv_pc>>
    /\ HvOthers

\* ast.py:121-144: a typedef.
HvTypedef ==
    /\ HvAt("typedef")
    /\ LET name == HvNode.spelling
           st == TypedefWalk([symbols |-> DictSet(hv_symbols, name,
                                          Symbol(name, HvNode.kind, HvNode.decl)),
                              graph |-> complete_graph, failed |-> FALSE],
                             name, previous_name, HvNode.preorder, 1)
       IN  IF st.failed
           THEN /\ hv_pc' = "AssertionError"
                /\ UNCHANGED <<hv_i, hv_symbols, complete_graph>>
           ELSE /\ hv_symbols' = st.symbols
                /\ HvAllReferenced(st.graph, name)
                /\ hv_pc' = hv_pc
    /\ UNCHANGED <<fn_definitions, previous_name>>
    /\ HvOthers

\* ast.py:147-148: any other cursor of a kind in DECL_NODE_KIND.
HvOtherDeclaration ==
    /\ HvAt("other declaration")
    /\ hv_symbols' = DictSet(hv_symbols, HvNode.spelling,
                             Symbol(HvNode.spelling, HvNode.kind, HvNode.decl))
    /\ HvAllReferenced(complete_graph, HvNode.spelling)
    /\ UNCHANGED <<fn_definitions, previous_name, hv_pc>>
    /\ HvOthers

\* ast.py:81-151: no arm of the match statement takes the cursor; the
\* statement does nothing and the loop body goes on with ast.py:151.
HvNoCase ==
    /\ HvAt("no case")
    /\ HvAllReferenced(complete_graph, HvNode.spelling)
    /\ UNCHANGED <<hv_symbols, fn_definitions, previous_name, hv_pc>>
    /\ HvOthers

\* ast.py:75, 153: the loop is over.
HvLoopEnd ==
    /\ hv_pc = "loop"
    /\ hv_i = Len(hv_nodes)
    /\ hv_pc' = "done"
    /\ UNCHANGED <<hv_i, hv_symbols, fn_definitions, complete_graph, previous_name>>
    /\ HvOthers

HvNext ==
    \/ HvRangeAssertion \/ HvNameless \/ HvNamelessUnexpected
    \/ HvFunctionDefinition \/ HvDataStructure \/ HvTypedef
    \/ HvOtherDeclaration \/ HvNoCase \/ HvLoopEnd

SpecHarvest == HvInit /\ [][HvNext]_vars

(***************************************************************************)
(* Claims about extract_info_c.                                            *)
(***************************************************************************)

TagKinds == {"STRUCT_DECL", "UNION_DECL", "ENUM_DECL"}

\* The key a tag declaration is recorded under (ast.py:89, 111).
TagKey(node) ==
    DATA_STRUCT_NODE_MAP[node.kind] \o " " \o
        (IF node.spelling = "" THEN node.usr ELSE node.spelling)

\* Cursor k is a typedef whose own text holds the tag declaration of the
\* cursor before it: `typedef <tag> {...} Name;`.
TypedefOfNestedTag(k) ==
    /\ k > 1 /\ k <= Len(hv_nodes)
    /\ hv_nodes[k].kind = "TYPEDEF_DECL"
    /\ hv_nodes[k - 1].kind \in TagKinds
    /\ hv_nodes[k].children = <<Child(hv_nodes[k - 1].kind, hv_nodes[k - 1].spelling)>>
    /\ StrContains(hv_nodes[k].decl, hv_nodes[k - 1].decl)

\* C16: after the pass, for every `typedef <tag> {...} Name;` (struct, union or
\* enum, named or anonymous) the symbol table holds a symbol for Name and no
\* symbol for the tag.
TypedefCollapsesTag ==
    hv_pc = "done" =>
        \A k \in 1..Len(hv_nodes) :
            TypedefOfNestedTag(k) =>
                /\ hv_nodes[k].spelling \in DOMAIN hv_symbols
                /\ TagKey(hv_nodes[k - 1]) \notin DOMAIN hv_symbols

\* The loop handles a cursor that declares, without defining it, a function or
\* a variable that an earlier cursor defined.
LaterDeclaration ==
    /\ hv_pc = "loop" /\ hv_i < Len(hv_nodes) /\ hv_i' = hv_i + 1
    /\ HvNode.kind \in {"FUNCTION_DECL", "VAR_DECL"}
    /\ ~HvNode.is_definition
    /\ \E j \in 1..hv_i : /\ hv_nodes[j].spelling = HvNode.spelling
                          /\ hv_nodes[j].kind = HvNode.kind
                          /\ hv_nodes[j].is_definition

\* The loop handles the definition of a function or a variable that is
\* recorded already.
LaterDefinition ==
    /\ hv_pc = "loop" /\ hv_i < Len(hv_nodes) /\ hv_i' = hv_i + 1
    /\ HvNode.kind \in {"FUNCTION_DECL", "VAR_DECL"}
    /\ HvNode.is_definition
    /\ HvNode.spelling \in DOMAIN hv_symbols

\* C17: a declaration that follows the definition of the same name replaces
\* neither the recorded Symbol nor the definition text; a definition replaces
\* the Symbol recorded before it.
DefinitionNotDowngraded ==
    [][/\ LaterDeclaration =>
              /\ hv_symbols'[HvNode.spelling] = hv_symbols[HvNode.spelling]
              /\ fn_definitions' = fn_definitions
       /\ LaterDefinition =>
              hv_symbols'[HvNode.spelling] =
                  Symbol(HvNode.spelling, HvNode.kind, HvNode.decl)]_vars

\* C18: the loop never goes past a top-level cursor whose kind is not one of
\* DECL_NODE_KIND: every cursor it has handled is of a recognized kind.
UnrecognizedKindAborts ==
    \A k \in 1..hv_i : hv_nodes[k].kind \in DECL_NODE_KIND

(***************************************************************************)
(* get_code_from_tu_range, ast.py:199-210.                                 *)
(* The contents of a file are ASCII text, a byte per character.            *)
(***************************************************************************)

\* The files of the translation unit and their contents.
TuFiles == [f \in {"file.c", "other.h"} |->
               IF f = "file.c" THEN "int v = 1;" ELSE "int w;"]

\* The files a location can name; "gone.c" is no file of the unit.
LocationFiles == {"file.c", "other.h", "gone.c"}

\* The largest offset of a location.
MaxOffset == 4

SourceLocations == [file : LocationFiles, offset : 0..MaxOffset]

SourceRanges == [start : SourceLocations, end : SourceLocations]

\* Python's s[a:b] for 0 <= a and 0 <= b.
Slice(s, a, b) ==
    LET hi == IF b < Len(s) THEN b ELSE Len(s)
    IN  IF a >= hi THEN "" ELSE SubSeq(s, a + 1, hi)

TrInit ==
    /\ tu_files = TuFiles
    /\ source_range \in SourceRanges
    /\ tr_result = << >>
    /\ tr_pc = "start"
    /\ BaseIdle /\ C14nIdle /\ CallerIdle /\ PrefixIdle /\ HarvestIdle /\ McgIdle
    /\ FilterIdle /\ InitIdle

TrOthers ==
    UNCHANGED <<baseVars, c14nVars, callerVars, prefixVars, harvestVars, mcgVars,
                filterVars, initVars, tu_files, source_range>>

\* ast.py:202-204: the assertion fails.
TrAssertionError ==
    /\ tr_pc = "start"
    /\ ~RangeAssertion(source_range.start.file, source_range.end.file)
    /\ tr_pc' = "AssertionError"
    /\ UNCHANGED tr_result
    /\ TrOthers

\* ast.py:205-209: clang_getFileContents has no contents for the file.
TrNoContents ==
    /\ tr_pc = "start"
    /\ RangeAssertion(source_range.start.file, source_range.end.file)
    /\ source_range.start.file \notin DOMAIN tu_files
    /\ tr_result' = <<"">>
    /\ tr_pc' = "done"
    /\ TrOthers

\* ast.py:205-210: the contents of the start file, sliced by the two offsets.
TrSlice ==
    /\ tr_pc = "start"
    /\ RangeAssertion(source_range.start.file, source_range.end.file)
    /\ source_range.start.file \in DOMAIN tu_files
    /\ tr_result' = <<Slice(tu_files[source_range.start.file],
                            source_range.start.offset, source_range.end.offset)>>
    /\ tr_pc' = "done"
    /\ TrOthers

TrNext == TrAssertionError \/ TrNoContents \/ TrSlice

SpecRange == TrInit /\ [][TrNext]_vars

\* C19: the call aborts exactly when the range starts and ends in two
\* different files; a range within one file of the unit yields the text
\* between the two offsets.
RangeAbortsIffTwoFiles ==
    tr_pc \in {"done", "AssertionError"} =>
        /\ tr_pc = "AssertionError" <=>
               source_range.start.file # source_range.end.file
        /\ (/\ source_range.start.file = source_range.end.file
            /\ source_range.start.file \in DOMAIN tu_files) =>
               tr_result = <<Slice(tu_files[source_range.start.file],
                                   source_range.start.offset,
                                   source_range.end.offset)>>

(***************************************************************************)
(* merge_complete_graphs, init.py:285-301.                                 *)
(* A complete_graph maps a name to the list of the names of its Symbols    *)
(* (init.py:292).  The items of a dict are handled in the order of its     *)
(* keys, which is any order here.                                          *)
(***************************************************************************)

\* The names of the graphs to merge and the neighbor lists of a name.
GraphNames == {"A", "B"}
NeighborLists == {<< >>, <<"B">>, <<"A", "B">>, <<"B", "B">>}

\* The largest number of asts.
MaxAsts == 2

CompleteGraphs == UNION {[K -> NeighborLists] : K \in SUBSET GraphNames}

\* A loop that drops only the names that are not valid (used to test
\* MergedGraphIsValidUnion).
SkipInvalidOnly(neighbor, valid, list) == neighbor \notin valid

\* init.py:298 `neighbor not in valid_names or neighbor in graph[node]`
SkipNeighbor(neighbor, valid, list) == neighbor \notin valid \/ neighbor \in Range(list)

\* init.py:297-300: the loop over the neighbors of a node.
RECURSIVE AppendNeighbors(_, _, _, _)
AppendNeighbors(list, neighbors, valid, k) ==
    IF k > Len(neighbors) THEN list
    ELSE AppendNeighbors(IF SkipNeighbor(neighbors[k], valid, list) THEN list
                         ELSE Append(list, neighbors[k]),
                         neighbors, valid, k + 1)

McgInit ==
    /\ mcg_asts \in UNION {[1..n -> CompleteGraphs] : n \in 0..MaxAsts}
    /\ valid_names \in SUBSET GraphNames
    /\ mcg_graph = EmptyDict
    /\ mcg_a = 0
    /\ mcg_todo = {}
    /\ mcg_pc = "run"
    /\ BaseIdle /\ C14nIdle /\ CallerIdle /\ PrefixIdle /\ HarvestIdle /\ RangeIdle
    /\ FilterIdle /\ InitIdle

McgOthers ==
    UNCHANGED <<baseVars, c14nVars, callerVars, prefixVars, harvestVars, rangeVars,
                filterVars, initVars, mcg_asts, valid_names>>

\* init.py:289: the outer loop takes the next ast.
McgNextAst ==
    /\ mcg_pc = "run"
    /\ mcg_todo = {}
    /\ mcg_a < Len(mcg_asts)
    /\ mcg_a' = mcg_a + 1
    /\ mcg_todo' = DOMAIN mcg_asts[mcg_a + 1]
    /\ UNCHANGED <<mcg_graph, mcg_pc>>
    /\ McgOthers

\* init.py:291-294: an item whose node is not in valid_names is skipped.
McgSkipNode ==
    /\ mcg_pc = "run"
    /\ \E node \in mcg_todo :
          /\ node \notin valid_names
          /\ mcg_todo' = mcg_todo \ {node}
    /\ UNCHANGED <<mcg_graph, mcg_a, mcg_pc>>
    /\ McgOthers

\* init.py:291-300: an item whose node is valid.
McgNode ==
    /\ mcg_pc = "run"
    /\ \E node \in mcg_todo :
          /\ node \in valid_names
          /\ LET list == IF node \in DOMAIN mcg_graph THEN mcg_graph[node] ELSE << >>
             IN  mcg_graph' = DictSet(mcg_graph, node,
                                      AppendNeighbors(list, mcg_asts[mcg_a][node],
                                                      valid_names, 1))
          /\ mcg_todo' = mcg_todo \ {node}
    /\ UNCHANGED <<mcg_a, mcg_pc>>
    /\ McgOthers

\* init.py:301: return dict(graph).
McgReturn ==
    /\ mcg_pc = "run"
    /\ mcg_todo = {}
    /\ mcg_a = Len(mcg_asts)
    /\ mcg_pc' = "done"
    /\ UNCHANGED <<mcg_graph, mcg_a, mcg_todo>>
    /\ McgOthers

McgNext == McgNextAst \/ McgSkipNode \/ McgNode \/ McgReturn

SpecMergeGraphs == McgInit /\ [][McgNext]_vars

\* The edges of a name graph.
Edges(g) == {<<n, m>> \in (DOMAIN g) \X GraphNames : m \in Range(g[n])}

\* C20: the returned graph has exactly the edges (n, m) of the units' graphs
\* with n and m in valid_names, and none of its lists names a neighbor twice.
MergedGraphIsValidUnion ==
    mcg_pc = "done" =>
        /\ Edges(mcg_graph) =
               {e \in UNION {Edges(mcg_asts[a]) : a \in 1..Len(mcg_asts)} :
                   e[1] \in valid_names /\ e[2] \in valid_names}
        /\ \A n \in DOMAIN mcg_graph :
               Len(mcg_graph[n]) = Cardinality(Range(mcg_graph[n]))

\* Two units, the first listing B twice for A and the second listing A and B
\* for A, merged with every name valid: A keeps B once, then its own name.
MergedGraphIsValidUnionWitness ==
    /\ mcg_pc = "done" /\ Len(mcg_asts) = 2 /\ valid_names = GraphNames
    /\ mcg_asts[1] = [A |-> <<"B", "B">>]
    /\ mcg_asts[2] = [A |-> <<"A", "B">>, B |-> <<"B">>]
    /\ mcg_graph = [A |-> <<"B", "A">>, B |-> <<"B">>]

(***************************************************************************)
(* Claims about what init's emission loop emits, init.py:68-78.            *)
(***************************************************************************)

\* The nodes of the sorter built from a graph: its keys and their neighbors.
SorterNodes(g) == DOMAIN g \cup UNION {Range(g[n]) : n \in DOMAIN g}

\* A list without a repeated entry.
NoRepeat(list) == \A i, j \in 1..Len(list) : list[i] = list[j] => i = j

\* C21: once the emission has returned, the emitted texts are those of the
\* nodes of the order that are keys of the retained table, each once, and the
\* warnings name the other nodes, each once; at no point is a text emitted for
\* a name outside the table, and the only error of the loop is the CycleError
\* of a cyclic graph, whatever nodes the table lacks.
EmitsExactlyRetainedNames ==
    /\ Range(sources) \subseteq symbols
    /\ emit_pc = "done" =>
          /\ Range(sources) = SorterNodes(dependencies) \cap symbols
          /\ Range(warnings) = SorterNodes(dependencies) \ symbols
          /\ NoRepeat(sources) /\ NoRepeat(warnings)
    /\ emit_pc = "CycleError" =>
          \E n \in SorterNodes(dependencies) : n \in Reach(dependencies, n)

\* The emission of a graph has returned with a text emitted and a node that
\* is no key of the table skipped with a warning.
EmitsExactlyRetainedNamesWitness ==
    /\ emit_pc = "done"
    /\ dependencies = [A |-> <<"B", "C">>, B |-> <<"C">>]
    /\ symbols = {"A", "C"}
    /\ sources = <<"C", "A">>
    /\ warnings = <<"B">>

(***************************************************************************)
(* Claims about what get_all_deps stores in its cache, utils.py:64, 99.    *)
(***************************************************************************)

\* C22: with no cutoffs and no depth limit, every list a cache holds for a
\* name n names exactly the closure of n (what a call for n with a fresh cache
\* returns: the names reachable from n, without n), also for a name resolved
\* while a name of the current path cut a cycle through it.
CachedResultsAreComplete ==
    (cutoffs = {} /\ max_depth = Inf) =>
        \A r \in 1..Len(caches) : \A n \in DOMAIN caches[r] :
            Range(caches[r][n]) = Reach(current_graph, n) \ {n}

(***************************************************************************)
(* Claims about the order of the list get_all_deps returns.                *)
(***************************************************************************)

\* The names of list that are not in seen, each at its first occurrence.
RECURSIVE FirstNew(_, _)
FirstNew(list, seen) ==
    IF list = << >> THEN << >>
    ELSE IF list[1] \in seen THEN FirstNew(Tail(list), seen)
    ELSE <<list[1]>> \o FirstNew(Tail(list), seen \cup {list[1]})

\* The list built neighbor by neighbor in listed order, without a cache: for
\* every neighbor outside cutoffs, the neighbor's own list and then the
\* neighbor, of which the names not yet listed are kept; a name of the path
\* and a name past the depth limit have the empty list.
RECURSIVE NeighborByNeighbor(_, _, _)
RECURSIVE NeighborFold(_, _, _, _, _)
NeighborByNeighbor(name, path, depth) ==
    IF name \in path \/ DepthExceeded(depth, max_depth) THEN << >>
    ELSE IF name \notin DOMAIN current_graph THEN << >>
    ELSE NeighborFold(name, path \cup {name}, depth, 1, << >>)

NeighborFold(name, path, depth, k, acc) ==
    IF k > Len(current_graph[name]) THEN acc
    ELSE LET dep == current_graph[name][k]
         IN  IF dep \in cutoffs THEN NeighborFold(name, path, depth, k + 1, acc)
             ELSE NeighborFold(name, path, depth, k + 1,
                               acc \o FirstNew(NeighborByNeighbor(dep, path, depth + 1)
                                                   \o <<dep>>,
                                               Range(acc) \cup {name}))

\* C23: the returned list names no name twice, and it is the list built
\* neighbor by neighbor in listed order, the transitive dependencies of a
\* neighbor before the neighbor and every name at its first occurrence.
ResultInFirstOccurrenceOrder ==
    gad_pc = "done" =>
        /\ NoRepeat(gad_result)
        /\ gad_result = NeighborByNeighbor(gad_name, {}, 0)

\* The call for A on {A: [B, C], B: [C]} has returned: C, a dependency of the
\* first neighbor B, comes before B, and the second neighbor C, already
\* listed, is not listed again.
ResultInFirstOccurrenceOrderWitness ==
    /\ gad_pc = "done" /\ gad_name = "A" /\ cutoffs = {} /\ max_depth = Inf
    /\ current_graph = [A |-> <<"B", "C">>, B |-> <<"C">>]
    /\ gad_result = <<"C", "B">>

(***************************************************************************)
(* Claims about the reference graph of extract_info_c, ast.py:150-151.     *)
(***************************************************************************)

\* The value of the variable name at ast.py:151 for a cursor: the key of the
\* graph entry its references go to (ast.py:76, 111).
GraphKey(node) ==
    IF Arm(node) = "data structure"
    THEN DATA_STRUCT_NODE_MAP[node.kind] \o " " \o node.spelling
    ELSE node.spelling

\* C24: the graph entry of a name holds the references of every top-level
\* cursor of that name handled so far; the references of an earlier cursor are
\* not discarded when a later cursor declares the name again.
ReferencesAccumulate ==
    \A k \in 1..hv_i :
        /\ GraphKey(hv_nodes[k]) \in DOMAIN complete_graph
        /\ Range(hv_nodes[k].refs) \subseteq Range(complete_graph[GraphKey(hv_nodes[k])])

\* C25: no name of the reference graph is in its own reference list.
NoSelfReference ==
    \A n \in DOMAIN complete_graph : n \notin Range(complete_graph[n])

(***************************************************************************)
(* filter_symbols, init.py:180-220.                                        *)
(* A Symbol is what filter_symbols reads of it: the kind of its cursor,    *)
(* is_definition(), location.is_in_system_header and, of every child of    *)
(* the cursor, the kind and get_usr().  A dict is the list of its items in *)
(* insertion order; the key of a Symbol is its name.                       *)
(***************************************************************************)

\* The symbols of the model:
\*   struct S {...}  (as its own entry)     typedef struct S {...} T;
\*   typedef struct S R;                    int f(void) {...}     int f(void);
\*   RED  (an enumerator)
\* the struct and the typedef T in a project file or in a system header.
FilterSymbols ==
    [name : {"c:@S@S"}, kind : {"STRUCT_DECL"}, is_definition : {TRUE},
     is_in_system_header : BOOLEAN, children : {<< >>}]
    \cup
    [name : {"c:@T@T"}, kind : {"TYPEDEF_DECL"}, is_definition : {TRUE},
     is_in_system_header : BOOLEAN,
     children : {<<[kind |-> "STRUCT_DECL", usr |-> "c:@S@S"]>>}]
    \cup
    [name : {"c:@T@R"}, kind : {"TYPEDEF_DECL"}, is_definition : {TRUE},
     is_in_system_header : {FALSE},
     children : {<<[kind |-> "TYPE_REF", usr |-> "c:@S@S"]>>}]
    \cup
    [name : {"c:@F@f"}, kind : {"FUNCTION_DECL"}, is_definition : BOOLEAN,
     is_in_system_header : {FALSE}, children : {<< >>}]
    \cup
    [name : {"c:@E@E@RED"}, kind : {"ENUM_CONSTANT_DECL"}, is_definition : {TRUE},
     is_in_system_header : {FALSE}, children : {<< >>}]

\* The largest number of symbols of a table.
MaxSymbols == 2

\* dict[str, Symbol]: the keys of a dict are distinct.
FilterTables ==
    {t \in SeqsUpTo(FilterSymbols, MaxSymbols) :
        \A i, j \in 1..Len(t) : t[i].name = t[j].name => i = j}

\* The keys of a dict.
Keys(items) == {items[i].name : i \in 1..Len(items)}

\* `d.pop(key, None)`
DictPop(items, key) ==
    LET Other(e) == e.name # key
    IN  SelectSeq(items, Other)

\* `d[symbol.name] = symbol`
DictPut(items, symbol) ==
    IF symbol.name \in Keys(items)
    THEN [i \in 1..Len(items) |->
             IF items[i].name = symbol.name THEN symbol ELSE items[i]]
    ELSE Append(items, symbol)

\* init.py:198-202: a typedef whose cursor has one child, not a type reference.
ContainsTag(symbol) ==
    /\ symbol.kind = "TYPEDEF_DECL"
    /\ Len(symbol.children) = 1
    /\ symbol.children[1].kind # "TYPE_REF"

\* init.py:196-204: the entry of the contained declaration is popped from what
\* has been kept so far.
PopContained(items, symbol, flags) ==
    IF flags.filter_tag_definitions /\ ContainsTag(symbol)
    THEN DictPop(items, symbol.children[1].usr)
    ELSE items

\* init.py:190
IsSystem(symbol, flags) == flags.filter_system /\ symbol.is_in_system_header

\* init.py:207-211
IsFunctionDeclaration(symbol, flags) ==
    /\ flags.filter_function_declarations
    /\ symbol.kind = "FUNCTION_DECL"
    /\ ~symbol.is_definition

\* init.py:215-216
IsEnumConstant(symbol, flags) ==
    flags.filter_enum_constants /\ symbol.kind = "ENUM_CONSTANT_DECL"

FsInit ==
    /\ fs_symbols \in FilterTables
    /\ fs_flags \in [filter_system : BOOLEAN, filter_tag_definitions : BOOLEAN,
                     filter_function_declarations : BOOLEAN,
                     filter_enum_constants : BOOLEAN]
    /\ filtered_symbols = << >>
    /\ fs_i = 0
    /\ fs_pc = "loop"
    /\ BaseIdle /\ C14nIdle /\ CallerIdle /\ PrefixIdle /\ HarvestIdle /\ RangeIdle
    /\ McgIdle /\ InitIdle

FsOthers ==
    UNCHANGED <<baseVars, c14nVars, callerVars, prefixVars, harvestVars, rangeVars,
                mcgVars, initVars, fs_symbols, fs_flags>>

\* The symbol the loop handles next.
FsSymbol == fs_symbols[fs_i + 1]

FsAt == fs_pc = "loop" /\ fs_i < Len(fs_symbols)

\* init.py:190-191: a symbol of a system header is skipped.
FsSystem ==
    /\ FsAt
    /\ IsSystem(FsSymbol, fs_flags)
    /\ fs_i' = fs_i + 1
    /\ UNCHANGED <<filtered_symbols, fs_pc>>
    /\ FsOthers

\* init.py:196-212: a function declaration is skipped.
FsFunctionDeclaration ==
    /\ FsAt
    /\ ~IsSystem(FsSymbol, fs_flags)
    /\ IsFunctionDeclaration(FsSymbol, fs_flags)
    /\ filtered_symbols' = PopContained(filtered_symbols, FsSymbol, fs_flags)
    /\ fs_i' = fs_i + 1
    /\ UNCHANGED fs_pc
    /\ FsOthers

\* init.py:196-217: an enumerator is skipped.
FsEnumConstant ==
    /\ FsAt
    /\ ~IsSystem(FsSymbol, fs_flags)
    /\ ~IsFunctionDeclaration(FsSymbol, fs_flags)
    /\ IsEnumConstant(FsSymbol, fs_flags)
    /\ filtered_symbols' = PopContained(filtered_symbols, FsSymbol, fs_flags)
    /\ fs_i' = fs_i + 1
    /\ UNCHANGED fs_pc
    /\ FsOthers

\* init.py:196-219: the symbol is kept.
FsKeep ==
    /\ FsAt
    /\ ~IsSystem(FsSymbol, fs_flags)
    /\ ~IsFunctionDeclaration(FsSymbol, fs_flags)
    /\ ~IsEnumConstant(FsSymbol, fs_flags)
    /\ filtered_symbols' =
           DictPut(PopContained(filtered_symbols, FsSymbol, fs_flags), FsSymbol)
    /\ fs_i' = fs_i + 1
    /\ UNCHANGED fs_pc
    /\ FsOthers

\* init.py:220: return filtered_symbols.
FsReturn ==
    /\ fs_pc = "loop"
    /\ fs_i = Len(fs_symbols)
    /\ fs_pc' = "done"
    /\ UNCHANGED <<filtered_symbols, fs_i>>
    /\ FsOthers

FsNext == FsSystem \/ FsFunctionDeclaration \/ FsEnumConstant \/ FsKeep \/ FsReturn

SpecFilter == FsInit /\ [][FsNext]_vars

\* C26: with filter_tag_definitions enabled, the returned table has no entry
\* for the single contained declaration (not a type reference) of a typedef it
\* retains, in whatever order the table lists the two entries.
TagOfRetainedTypedefRemoved ==
    (fs_pc = "done" /\ fs_flags.filter_tag_definitions) =>
        \A i \in 1..Len(filtered_symbols) :
            ContainsTag(filtered_symbols[i]) =>
                filtered_symbols[i].children[1].usr \notin Keys(filtered_symbols)

(***************************************************************************)
(* init up to the harvest of the units, init.py:55-65, with get_asts,      *)
(* init.py:130-150.  What add_prefix_to_internally_linked_cursors does to  *)
(* a unit is the subject of SpecPrefix; here a unit is prefixed or not,    *)
(* and the rename of a unit may raise.                                     *)
(***************************************************************************)

\* The compile commands of the database: one source file each.
CompileCommands ==
    {c \in SeqsUpTo(SourcePaths, MaxUnits) :
        c # << >> /\ \A i, j \in 1..Len(c) : c[i] = c[j] => i = j}

\* source_priority: None (<< >>), or a list of paths (<<list>>).
SourcePriorities == {<< >>} \cup {<<l>> : l \in SeqsUpTo(SourcePaths, MaxUnits)}

\* init.py:61-63
PrefixEnabled(priority) == priority # << >> /\ Len(priority[1]) > 1

\* init.py:147 `valid_paths is None or Path(tu.cursor.spelling) in valid_paths`
ValidPath(path, valid_paths) ==
    IF valid_paths = << >> THEN TRUE ELSE path \in Range(valid_paths[1])

InInit ==
    /\ cmds \in CompileCommands
    /\ init_priority \in SourcePriorities
    /\ prefix_internally_linked = FALSE
    /\ init_asts = << >>
    /\ init_k = 0
    /\ init_pc = "start"
    /\ BaseIdle /\ C14nIdle /\ CallerIdle /\ PrefixIdle /\ HarvestIdle /\ RangeIdle
    /\ McgIdle /\ FilterIdle

InOthers ==
    UNCHANGED <<baseVars, c14nVars, callerVars, prefixVars, harvestVars, rangeVars,
                mcgVars, filterVars, cmds, init_priority>>

\* init.py:58-64 and 135-139: init calls get_asts.
InGetAsts ==
    /\ init_pc = "start"
    /\ prefix_internally_linked' = PrefixEnabled(init_priority)
    /\ init_pc' = "loop"
    /\ UNCHANGED <<init_asts, init_k>>
    /\ InOthers

InAt == init_pc = "loop" /\ init_k < Len(cmds)

\* init.py:140-149: the unit is parsed, prefixed if asked for, and harvested.
InHarvest ==
    /\ InAt
    /\ ValidPath(cmds[init_k + 1], init_priority)
    /\ init_asts' = Append(init_asts, [path |-> cmds[init_k + 1],
                                       prefixed |-> prefix_internally_linked])
    /\ init_k' = init_k + 1
    /\ UNCHANGED <<prefix_internally_linked, init_pc>>
    /\ InOthers

\* init.py:140-147: the unit is parsed, prefixed if asked for, and left out.
InLeaveOut ==
    /\ InAt
    /\ ~ValidPath(cmds[init_k + 1], init_priority)
    /\ init_k' = init_k + 1
    /\ UNCHANGED <<prefix_internally_linked, init_asts, init_pc>>
    /\ InOthers

\* init.py:145, tools.py:418-420: a rename of the unit fails.
InRenameFails ==
    /\ InAt
    /\ prefix_internally_linked
    /\ init_pc' = "ValueError"
    /\ UNCHANGED <<prefix_internally_linked, init_asts, init_k>>
    /\ InOthers

\* init.py:150, 65: get_asts returns and the units are merged.
InMerge ==
    /\ init_pc = "loop"
    /\ init_k = Len(cmds)
    /\ init_pc' = "done"
    /\ UNCHANGED <<prefix_internally_linked, init_asts, init_k>>
    /\ InOthers

InNext == InGetAsts \/ InHarvest \/ InLeaveOut \/ InRenameFails \/ InMerge

SpecInit == InInit /\ [][InNext]_vars

\* C27: whenever more than one unit is harvested for the merge, every one of
\* them was prefixed, also in a run without a source priority list.
MergedUnitsArePrefixed ==
    Len(init_asts) > 1 => \A k \in 1..Len(init_asts) : init_asts[k].prefixed

(***************************************************************************)
(* Claims about the termination of reachable_subgraph.                     *)
(***************************************************************************)

\* The roots and the names reachable from them.
ReachableNames ==
    Range(rs_names) \cup UNION {Reach(dependencies, r) : r \in Range(rs_names)}

\* The part of the graph reachable from the roots has a cycle.
CycleReachable == \E n \in ReachableNames : n \in Reach(dependencies, n)

\* The call has ended: it returned or an exception left it.
RsEnded == rs_pc \in {"done", "KeyError", "RecursionError"}

\* C28 as stated: a call ends without recursing to the limit exactly when no
\* cycle is reachable from the roots; with a reachable cycle (or self-edge) it
\* recurses without bound.
RecursesWithoutBoundIffCycle ==
    RsEnded => (rs_pc = "RecursionError" <=> CycleReachable)

\* C28, amended: a call returns a subgraph only if no cycle is reachable from
\* the roots, and it recurses to the limit only if one is; when the roots and
\* every name reachable from them are keys of the graph, it recurses to the
\* limit exactly when a cycle is reachable and returns otherwise.
ReturnsOnlyWithoutCycle ==
    /\ rs_pc = "done" => ~CycleReachable
    /\ rs_pc = "RecursionError" => CycleReachable
    /\ (RsEnded /\ ReachableNames \subseteq DOMAIN dependencies) =>
          /\ rs_pc # "KeyError"
          /\ rs_pc = "RecursionError" <=> CycleReachable

\* A call on a graph whose names are all keys, with a cycle B -> C -> B that
\* the root A reaches, has recursed to the limit.
ReturnsOnlyWithoutCycleWitness ==
    /\ rs_pc = "RecursionError"
    /\ rs_names = <<"A">>
    /\ dependencies = [A |-> <<"B">>, B |-> <<"C">>, C |-> <<"B">>]

(***************************************************************************)
(* Claims about the emission of a cyclic graph.                            *)
(***************************************************************************)

\* The graph has a cycle: two mutually dependent names, a longer cycle or a
\* self-edge.
HasCycle(g) == \E n \in SorterNodes(g) : n \in Reach(g, n)

\* C29: the emission of a graph with a cycle ends in an error and returns no
\* text: once the sorter is prepared the loop is at CycleError, it never
\* returns, and no symbol text is ever appended.
CycleFailsEmission ==
    HasCycle(dependencies) =>
        /\ emit_pc \in {"start", "prepare", "CycleError"}
        /\ sources = << >>

\* The emission of {A: [B], B: [A], C: []} with every name in the table has
\* ended in CycleError with no text appended, though C depends on nothing.
CycleFailsEmissionWitness ==
    /\ emit_pc = "CycleError"
    /\ dependencies = [A |-> <<"B">>, B |-> <<"A">>, C |-> << >>]
    /\ symbols = Names
    /\ sources = << >>

(***************************************************************************)
(* get_all_deps on acyclic graphs over four names, for the claims about    *)
(* the order of its result under cutoffs.                                  *)
(***************************************************************************)

\* The names of the acyclic graphs, in an order every edge follows: every
\* acyclic graph over four names is one of these up to the choice of names.
DagNames == <<"A", "B", "C", "D">>

\* The lists without a repeated name over the set S.
ListsOf(S) == UNION {KeyOrders(T) : T \in SUBSET S}

\* The neighbor lists of the k-th name: names after it, in any order.
DagLists(k) == ListsOf({DagNames[j] : j \in (k + 1)..Len(DagNames)})

\* What a graph holds for the k-th name: no entry (<< >>), or <<its list>>.
DagEntries(k) == {<< >>} \cup {<<l>> : l \in DagLists(k)}

\* The graph with the entries e, one per name.
DagOf(e) ==
    [n \in {DagNames[k] : k \in {i \in 1..Len(DagNames) : e[i] # << >>}} |->
        e[CHOOSE k \in 1..Len(DagNames) : DagNames[k] = n][1]]

\* The acyclic graphs; a name without neighbors is a key or not.
Dags ==
    {DagOf(<<a, b, c, d>>) :
        a \in DagEntries(1), b \in DagEntries(2), c \in DagEntries(3),
        d \in DagEntries(4)}

\* get_all_deps(current_graph, gad_name, cutoffs) on an acyclic graph, with
\* cache, max_depth and _visited left at their defaults.
DagInit ==
    /\ current_graph \in Dags
    /\ gad_name \in Range(DagNames)
    /\ cutoffs \in SUBSET Range(DagNames)
    /\ max_depth = Inf
    /\ caches = << >>
    /\ visited = {}
    /\ gad_stack = << >>
    /\ gad_result = << >>
    /\ gad_pc = "start"
    /\ MsIdle /\ dependencies = EmptyDict /\ RsIdle /\ EmitIdle /\ ExtIdle

SpecDepsDag == DagInit /\ [][GadNext]_vars

\* The graph without its edges to the names of cut.
WithoutEdgesTo(g, cut) ==
    LET Kept(n) == n \notin cut
    IN  [n \in DOMAIN g |-> SelectSeq(g[n], Kept)]

\* C30 as stated: on an acyclic graph, with a fresh cache, any cutoffs and no
\* depth limit, every name of the returned list comes after all of its
\* transitive dependencies that are in the list.
ResultRespectsDependencies ==
    gad_pc = "done" =>
        \A i, j \in 1..Len(gad_result) :
            gad_result[j] \in Reach(current_graph, gad_result[i]) => j < i

\* C30, amended: on an acyclic graph, with a fresh cache, any cutoffs and no
\* depth limit, every name of the returned list comes after all the names of
\* the list it reaches along edges that lead to no name of cutoffs; without
\* cutoffs these are all of its transitive dependencies.
ResultRespectsUncutDependencies ==
    gad_pc = "done" =>
        \A i, j \in 1..Len(gad_result) :
            gad_result[j] \in Reach(WithoutEdgesTo(current_graph, cutoffs), gad_result[i])
                => j < i

\* A returned call without cutoffs on the diamond A -> B -> D, A -> C -> D with
\* the edge B -> C: D, C and B are listed in that order.
ResultRespectsUncutDependenciesWitness ==
    /\ gad_pc = "done" /\ gad_name = "A" /\ cutoffs = {}
    /\ current_graph = [A |-> <<"B", "C">>, B |-> <<"C", "D">>, C |-> <<"D">>]
    /\ gad_result = <<"D", "C", "B">>

=============================================================================
